---------------------------- MODULE Spec2Model ----------------------------
(***************************************************************************)
(* Model of m32-firmware-util.c: the command line tool that repairs the    *)
(* partition headers of a recovery image, builds a factory image from a    *)
(* recovery image and decrypts a factory image.                            *)
(*                                                                         *)
(* Memory is modelled byte by byte: a heap block or a file is a sequence   *)
(* of bytes (0..255); source offsets are 0-based and sequence indices are  *)
(* 1-based, so the byte at source offset o is element o + 1.               *)
(*                                                                         *)
(* The OpenSSL primitives are outside the repository.  They are modelled   *)
(* by small computable functions that keep the properties the tool relies  *)
(* on: the digest changes whenever one byte changes, an RSA signature is   *)
(* the unique byte string the matching public key accepts for a digest,    *)
(* AES-CBC is an invertible keyed block chain with PKCS#7 padding, and     *)
(* every library call can also report an error (its documented return     *)
(* codes), chosen nondeterministically.                                    *)
(***************************************************************************)
EXTENDS Integers, Sequences, FiniteSets, TLC

VARIABLES
  pc,            \* control location of the running program
  run,           \* which invocation of the tool is running (0: none yet)
  argv,          \* command line of the running invocation
  files,         \* the file system: file name -> [exists, data]
  debugFiles,    \* names of the debug side files written so far
  inputOpen,     \* main's "file" is an open FILE handle
  bytesRead,     \* number of bytes fread from the input file
  outputOpens,   \* number of times the primary output file was opened for writing
  heap,          \* [mallocs, frees]: heap blocks taken and released by the operation
  buffer,        \* the operation's heap block: buffer / factoryImage / fileBuffer
  decrpytedData, \* DecryptFactoryImage's second heap block
  locals,        \* the operation's scalar locals
  status,        \* the "status" the operation returned to main
  exitCode,      \* what the process ended with (-1 while it runs)
  history        \* the invocations that ended: command line, exit code, what went wrong

vars == << pc, run, argv, files, debugFiles, inputOpen, bytesRead, outputOpens,
           heap, buffer, decrpytedData, locals, status, exitCode, history >>

(***************************************************************************)
(* Program constants                                                       *)
(***************************************************************************)
M32_FIRMWARE_UTIL_FW_HEADER_LENGTH == 80
M32_FIRMWARE_UTIL_MAX_PARTITIONS == 16
M32_FIRMWARE_UTIL_FW_DATA_LENGTH_OFFSET == 44
CHECKUM_PATCHER_DATA_CHECKSUM_OFFSET == 14
CHECKUM_PATCHER_HEADER_CHECKSUM_OFFSET == M32_FIRMWARE_UTIL_FW_HEADER_LENGTH - 2
M32_FIRMWARE_HEADER_LENGTH == 16
M32_FIRMWARE_SIGNATURE_LENGTH == 256
M32_FIRMWARE_INITIALIZATION_VECTOR_LENGTH == 33
M32_FIRMWARE_SALT_INFO_LENGTH == 16
M32_FIRMWARE_DECRYPTION_INFO_LENGTH ==
  M32_FIRMWARE_INITIALIZATION_VECTOR_LENGTH + M32_FIRMWARE_SALT_INFO_LENGTH
AES_BLOCK_SIZE == 16
SHA512_DIGEST_LENGTH == 64

\* "MH01"
M32FirmwareUtilHeaderStart == << 77, 72, 48, 49 >>

(***************************************************************************)
(* Bytes                                                                   *)
(***************************************************************************)
Byte == 0 .. 255

\* the byte at 0-based offset off
At(mem, off) == mem[off + 1]

\* mem with the bytes of data stored from 0-based offset off on
Poke(mem, off, data) ==
  [ i \in 1 .. Len(mem) |->
      IF i > off /\ i <= off + Len(data) THEN data[i - off] ELSE mem[i] ]

\* the len bytes of mem from 0-based offset off on
Slice(mem, off, len) == [ i \in 1 .. len |-> mem[off + i] ]

RECURSIVE BitXor(_, _)
BitXor(a, b) ==
  IF a = 0 THEN b
  ELSE IF b = 0 THEN a
  ELSE (((a % 2) + (b % 2)) % 2) + 2 * BitXor(a \div 2, b \div 2)

(***************************************************************************)
(* size_t                                                                  *)
(*                                                                         *)
(* A size_t value is held as its eight bytes, least significant first, so  *)
(* that its 64 bits are kept: the integers of the model checker stop at    *)
(* 2^31 - 1.                                                               *)
(***************************************************************************)
\* the size_t with the value of the small natural number n
SizeT(n) ==
  << n % 256, (n \div 256) % 256, (n \div 65536) % 256, (n \div 16777216) % 256,
     0, 0, 0, 0 >>

\* the value is below 2^31
IsSmall(size) == size[4] < 128 /\ \A i \in 5 .. 8 : size[i] = 0

\* the value of a small size_t
ToInt(size) == size[1] + 256 * size[2] + 65536 * size[3] + 16777216 * size[4]

\* the four bytes size & 0xFF, (size >> 8) & 0xFF, (size >> 16) & 0xFF,
\* (size >> 24) & 0xFF
LowWord(size) == SubSeq(size, 1, 4)

\* the bytes from byte number i on of a - b, borrow being what the lower
\* bytes borrowed
RECURSIVE SubBytes(_, _, _, _)
SubBytes(a, b, i, borrow) ==
  IF i > 8 THEN << >>
  ELSE LET d == a[i] - b[i] - borrow
       IN  << (d + 256) % 256 >> \o SubBytes(a, b, i + 1, IF d < 0 THEN 1 ELSE 0)

\* a - b on size_t: modulo 2^64
SizeSub(a, b) == SubBytes(a, b, 1, 0)

(***************************************************************************)
(* The device table                                                        *)
(***************************************************************************)
M32FirmwareUtilDeviceInfos ==
  << [ Name |-> "M30",
       RecoveryHeaderStart |-> << 68, 76, 75, 54, 69, 54, 49, 49, 48, 48, 48, 49 >>,
       FirmwareKey |-> << 98, 52, 53, 49, 55, 100, 57, 98, 57, 56, 101, 48, 52, 100,
                          57, 102, 48, 55, 53, 102, 53, 101, 55, 56, 99, 55, 52, 51,
                          101, 48, 57, 55 >>,
       PrivateKey |-> "M30PrivateKey", PublicKey |-> "M30PublicKey",
       Passphrase |-> "wrpd" ],
     [ Name |-> "M32",
       RecoveryHeaderStart |-> << 68, 76, 75, 54, 69, 54, 48, 49, 48, 48, 48, 49 >>,
       FirmwareKey |-> << 54, 98, 50, 57, 102, 49, 100, 54, 54, 51, 97, 50, 49, 98,
                          51, 53, 102, 98, 52, 53, 98, 54, 57, 97, 52, 50, 54, 52,
                          57, 102, 53, 101 >>,
       PrivateKey |-> "M32PrivateKey", PublicKey |-> "M32PublicKey",
       Passphrase |-> "wrpd" ],
     [ Name |-> "R32",
       RecoveryHeaderStart |-> << 68, 76, 75, 54, 69, 54, 48, 49, 53, 48, 48, 49 >>,
       FirmwareKey |-> << 54, 98, 50, 57, 102, 49, 100, 54, 54, 51, 97, 50, 49, 98,
                          51, 53, 102, 98, 52, 53, 98, 54, 57, 97, 52, 50, 54, 52,
                          57, 102, 53, 101 >>,
       PrivateKey |-> "M32PrivateKey", PublicKey |-> "M32PublicKey",
       Passphrase |-> "wrpd" ],
     [ Name |-> "M60",
       RecoveryHeaderStart |-> << 68, 76, 75, 54, 69, 56, 50, 48, 50, 48, 48, 49 >>,
       FirmwareKey |-> << 99, 53, 102, 56, 97, 49, 101, 50, 50, 102, 56, 48, 56, 97,
                          98, 99, 56, 52, 102, 50, 101, 52, 97, 54, 102, 97, 53, 102,
                          49, 48, 98, 98 >>,
       PrivateKey |-> "M60PrivateKey", PublicKey |-> "M60PublicKey",
       Passphrase |-> "wrpd" ] >>

M32FirmwareUtilDeviceInfosLength == Len(M32FirmwareUtilDeviceInfos)

DeviceNames == { M32FirmwareUtilDeviceInfos[i].Name : i \in 1 .. M32FirmwareUtilDeviceInfosLength }

\* main's lookup loop: the last table entry whose Name equals deviceArg
DeviceByName(name) ==
  M32FirmwareUtilDeviceInfos[
    CHOOSE i \in 1 .. M32FirmwareUtilDeviceInfosLength :
      M32FirmwareUtilDeviceInfos[i].Name = name ]

(***************************************************************************)
(* The 16-byte headers                                                     *)
(***************************************************************************)
\* the loop "for position 0..13: buffer[14] += buffer[position];
\* buffer[15] ^= buffer[position]" on the 16 bytes hdr, from position on
RECURSIVE SumXorLoop(_, _)
SumXorLoop(hdr, position) ==
  IF position >= 14 THEN hdr
  ELSE SumXorLoop(
         [ hdr EXCEPT ![15] = (hdr[15] + hdr[position + 1]) % 256,
                      ![16] = BitXor(hdr[16], hdr[position + 1]) ],
         position + 1)

\* the trailer as it would be without the two clearing stores: the
\* accumulators start from what bytes 14 and 15 held
HeaderTrailerNoClear(hdr) == SumXorLoop(hdr, 0)

\* buffer[14] = 0; buffer[15] = 0; then the sum/xor loop
HeaderTrailer(hdr) ==
  SumXorLoop([ hdr EXCEPT ![15] = 0, ![16] = 0 ], 0)

\* CreateSha512VerificatioinHeader on the 16 bytes at offset off of mem
CreateSha512VerificatioinHeader(mem, off, imageSize) ==
  LET old == Slice(mem, off, M32_FIRMWARE_HEADER_LENGTH)
      a == Poke(old, 0, M32FirmwareUtilHeaderStart)
      b == Poke(a, 4, LowWord(imageSize))
      c == Poke(b, 8, << 0, 1, 0, 0 >>)
      d == Poke(c, 12, << 43, 26 >>)
  IN  Poke(mem, off, HeaderTrailer(d))

\* CreateAes128CbcEncryptionHeader on the 16 bytes at offset off of mem
CreateAes128CbcEncryptionHeader(mem, off, imageSize) ==
  LET old == Slice(mem, off, M32_FIRMWARE_HEADER_LENGTH)
      a == Poke(old, 0, M32FirmwareUtilHeaderStart)
      b == Poke(a, 4, << 33, 0, 0, 0 >>)
      c == Poke(b, 8, LowWord(imageSize))
      d == Poke(c, 12, << 43, 26 >>)
  IN  Poke(mem, off, HeaderTrailer(d))

\* header[o] | header[o+1] << 8 | header[o+2] << 16 | header[o+3] << 24 is
\* computed in int and converted to size_t.  With a top byte >= 0x80 the shift
\* overflows int, which the language leaves undefined: a build either keeps
\* the negative int and sign-extends it, or extends the 32 bits with zeros.
IntExtensions == { "sign", "zero" }

IntToSizeT(word, extension) ==
  word \o (IF word[4] >= 128 /\ extension = "sign"
             THEN << 255, 255, 255, 255 >> ELSE << 0, 0, 0, 0 >>)

HasHeaderStart(mem, off) ==
  /\ At(mem, off) = 77
  /\ At(mem, off + 1) = 72
  /\ At(mem, off + 2) = 48
  /\ At(mem, off + 3) = 49

\* GetDataLengthFromVerificationHeader: [status, dataLength]; dataLength is
\* left as it was (old) when the magic does not match
GetDataLengthFromVerificationHeader(mem, off, old, extension) ==
  IF HasHeaderStart(mem, off)
    THEN [ status |-> 0, dataLength |-> IntToSizeT(Slice(mem, off + 4, 4), extension) ]
    ELSE [ status |-> 1, dataLength |-> old ]

\* GetDataLengthFromEncryptionHeader
GetDataLengthFromEncryptionHeader(mem, off, old, extension) ==
  IF HasHeaderStart(mem, off)
    THEN [ status |-> 0, dataLength |-> IntToSizeT(Slice(mem, off + 8, 4), extension) ]
    ELSE [ status |-> 1, dataLength |-> old ]

(***************************************************************************)
(* The 16-bit sum with end-around carry                                    *)
(***************************************************************************)
\* buffer[i] of a block of memory: a read past the end of the heap block
\* yields the indeterminate byte oob
ReadByte(mem, index, oob) ==
  IF index < Len(mem) THEN mem[index + 1] ELSE oob

\* the addition as it would be without "if (checksumNew < currentValue)
\* checksumNew++"
AddWordNoCarry(checksumNew, currentValue) == (checksumNew + currentValue) % 65536

\* checksumNew += currentValue; if (checksumNew < currentValue) checksumNew++;
\* on uint16_t
AddWord(checksumNew, currentValue) ==
  LET sum == (checksumNew + currentValue) % 65536
  IN  IF sum < currentValue THEN (sum + 1) % 65536 ELSE sum

\* the loop of Caclulate16BitSum over the words first..last of the buffer at
\* offset base, in order, starting from the running sum acc.  The range is
\* halved to keep the evaluation shallow; the lower half is summed first (the
\* test of its result makes it so) and its result is the running sum the
\* upper half starts from.
RECURSIVE SumWords(_, _, _, _, _, _)
SumWords(mem, base, first, last, acc, oob) ==
  IF first > last THEN acc
  ELSE IF first = last
    THEN AddWord(acc, ReadByte(mem, base + 2 * first, oob)
                        + 256 * ReadByte(mem, base + 2 * first + 1, oob))
  ELSE LET mid == (first + last) \div 2
           lower == SumWords(mem, base, first, mid, acc, oob)
       IN  IF lower \in 0 .. 65535
             THEN SumWords(mem, base, mid + 1, last, lower, oob)
             ELSE lower

\* checksumNew of Caclulate16BitSum: "for (i = 0; i < bufferLength; i += 2)"
\* visits the words 0 .. ceil(bufferLength / 2) - 1
Sum16(mem, base, bufferLength, inverted, oob) ==
  LET sum == SumWords(mem, base, 0, ((bufferLength + 1) \div 2) - 1, 0, oob)
  IN  IF inverted THEN 65535 - sum ELSE sum

\* Caclulate16BitSum as it would be if "inverted" were ignored: the sum is
\* stored as it is
Caclulate16BitSumNotInverted(mem, base, bufferLength, checksumOff, inverted, oob) ==
  Poke(mem, checksumOff,
       << Sum16(mem, base, bufferLength, FALSE, oob) % 256,
          Sum16(mem, base, bufferLength, FALSE, oob) \div 256 >>)

\* Caclulate16BitSum as it would be if the checksum were stored two bytes
\* behind checksumBuffer
Caclulate16BitSumMisplaced(mem, base, bufferLength, checksumOff, inverted, oob) ==
  Poke(mem, checksumOff + 2,
       << Sum16(mem, base, bufferLength, inverted, oob) % 256,
          Sum16(mem, base, bufferLength, inverted, oob) \div 256 >>)

\* Caclulate16BitSum: the memory after the call.  The two checksum bytes are
\* stored only when the new value differs from the old one, which leaves the
\* same bytes either way.
Caclulate16BitSum(mem, base, bufferLength, checksumOff, inverted, oob) ==
  LET checksumOld == At(mem, checksumOff) + 256 * At(mem, checksumOff + 1)
      checksumNew == Sum16(mem, base, bufferLength, inverted, oob)
  IN  IF checksumNew # checksumOld
        THEN Poke(mem, checksumOff, << checksumNew % 256, checksumNew \div 256 >>)
        ELSE mem

(***************************************************************************)
(* OpenSSL, modelled                                                       *)
(***************************************************************************)
HashPrime == 32749

\* sum of mem[off + i] * (1 + i % 251) for i in first..last, modulo HashPrime:
\* a change of one byte changes the sum
RECURSIVE WeightedSum(_, _, _, _)
WeightedSum(mem, off, first, last) ==
  IF first > last THEN 0
  ELSE IF first = last THEN (mem[off + first] * (1 + (first % 251))) % HashPrime
  ELSE LET mid == (first + last) \div 2
       IN  (WeightedSum(mem, off, first, mid) + WeightedSum(mem, off, mid + 1, last))
           % HashPrime

\* SHA512_Init / SHA512_Update / SHA512_Final over the len bytes at offset off:
\* a 64-byte digest that changes whenever a single byte of the input changes
Sha512(mem, off, len) ==
  LET value == WeightedSum(mem, off, 1, len)
  IN  [ i \in 1 .. SHA512_DIGEST_LENGTH |->
          CASE i = 1 -> value % 256
            [] i = 2 -> value \div 256
            [] i = 3 -> len % 256
            [] i = 4 -> (len \div 256) % 256
            [] i = 5 -> (len \div 65536) % 256
            [] OTHER -> 0 ]

\* the key pair a PEM block belongs to
KeyNumber(pem) ==
  CASE pem \in { "M30PrivateKey", "M30PublicKey" } -> 1
    [] pem \in { "M32PrivateKey", "M32PublicKey" } -> 2
    [] pem \in { "M60PrivateKey", "M60PublicKey" } -> 3

\* RSA PKCS#1 v1.5 over a digest with a private key: deterministic, 256 bytes
RsaSign(privateKey, digest) ==
  [ i \in 1 .. M32_FIRMWARE_SIGNATURE_LENGTH |->
      (digest[((i - 1) % SHA512_DIGEST_LENGTH) + 1] + 7 * KeyNumber(privateKey) + i) % 256 ]

\* RSA verification with a public key: the signature is accepted iff it is the
\* one signature the matching private key produces for the digest
RsaVerify(publicKey, digest, signature) ==
  \A i \in 1 .. M32_FIRMWARE_SIGNATURE_LENGTH :
    (signature[i] + 256 * 8 - 7 * KeyNumber(publicKey) - i) % 256
      = digest[((i - 1) % SHA512_DIGEST_LENGTH) + 1]

\* EVP_SignInit(sha512) / EVP_SignUpdate(msg) / EVP_SignFinal: the message is
\* hashed and the hash signed
EvpSign(privateKey, msg) == RsaSign(privateKey, Sha512(msg, 0, Len(msg)))

\* EVP_DigestVerifyInit(sha512) / Update(msg) / Final(signature)
EvpVerify(publicKey, msg, signature) ==
  RsaVerify(publicKey, Sha512(msg, 0, Len(msg)), signature)

\* EVP_BytesToKey(aes-128-cbc, sha256, salt, keyString, 1): [key, iv]
EVP_BytesToKey(salt, keyString) ==
  [ key |-> [ i \in 1 .. AES_BLOCK_SIZE |->
                (keyString[i] + salt[((i - 1) % 8) + 1] + i) % 256 ],
    iv  |-> [ i \in 1 .. AES_BLOCK_SIZE |->
                (keyString[AES_BLOCK_SIZE + i] + 3 * salt[((i - 1) % 8) + 1]) % 256 ] ]

\* PKCS#7: 1..16 bytes, each holding their number
Pkcs7Pad(plain) ==
  LET pad == AES_BLOCK_SIZE - (Len(plain) % AES_BLOCK_SIZE)
  IN  plain \o [ i \in 1 .. pad |-> pad ]

\* CBC encryption of the blocks first..last (numbered from 0) of padded;
\* chain is the ciphertext block before them (the IV at first).  The range is
\* halved to keep the evaluation shallow: the upper half chains on the last
\* ciphertext block of the lower half.
RECURSIVE CbcEncryptBlocks(_, _, _, _, _)
CbcEncryptBlocks(padded, key, chain, first, last) ==
  IF first = last
    THEN [ i \in 1 .. AES_BLOCK_SIZE |->
             (padded[first * AES_BLOCK_SIZE + i] + chain[i] + key[i]) % 256 ]
  ELSE LET mid == (first + last) \div 2
           lower == CbcEncryptBlocks(padded, key, chain, first, mid)
       IN  lower \o CbcEncryptBlocks(
                      padded, key,
                      SubSeq(lower, Len(lower) - AES_BLOCK_SIZE + 1, Len(lower)),
                      mid + 1, last)

\* EVP_EncryptInit_ex(key, iv) / EVP_EncryptUpdate / EVP_EncryptFinal_ex
AesCbcEncrypt(plain, key, iv) ==
  CbcEncryptBlocks(Pkcs7Pad(plain), key, iv, 0,
                   (Len(Pkcs7Pad(plain)) \div AES_BLOCK_SIZE) - 1)

\* CBC decryption of whole blocks, padding still on
AesCbcDecryptRaw(cipher, key, iv) ==
  [ i \in 1 .. Len(cipher) |->
      LET chain == IF i <= AES_BLOCK_SIZE THEN iv[i] ELSE cipher[i - AES_BLOCK_SIZE]
      IN  (cipher[i] + 512 - chain - key[((i - 1) % AES_BLOCK_SIZE) + 1]) % 256 ]

\* what EVP_DecryptFinal_ex checks: the last byte v is 1..16 and the last v
\* bytes all hold v
Pkcs7Valid(raw) ==
  /\ Len(raw) >= AES_BLOCK_SIZE
  /\ Len(raw) % AES_BLOCK_SIZE = 0
  /\ raw[Len(raw)] \in 1 .. AES_BLOCK_SIZE
  /\ \A i \in 1 .. raw[Len(raw)] : raw[Len(raw) + 1 - i] = raw[Len(raw)]

(***************************************************************************)
(* Signing and verifying                                                   *)
(***************************************************************************)
\* the library calls of CreateSha512VerificatioinSignature, in order; each
\* can fail, "none" is the run in which all of them succeed
SignSteps ==
  { "none", "SHA512_Init", "SHA512_Update", "SHA512_Final", "BIO_new_mem_buf",
    "PEM_read_bio_RSAPrivateKey", "EVP_PKEY_new", "EVP_PKEY_assign_RSA",
    "EVP_MD_CTX_new", "EVP_SignInit", "EVP_SignUpdate", "EVP_SignFinal" }

\* CreateSha512VerificatioinSignature up to its last statement: the memory
\* and the local "status".  The signature of the digest of the imageSize
\* bytes at off is stored right behind them.
CreateSha512VerificatioinSignature(mem, off, imageSize, device, failingStep) ==
  IF failingStep = "none"
    THEN [ mem |-> Poke(mem, off + imageSize,
                        EvpSign(device.PrivateKey, Sha512(mem, off, imageSize))),
           status |-> 0 ]
    ELSE [ mem |-> mem, status |-> 1 ]

\* The function ends without a return statement: the value its caller tests
\* is indeterminate, whatever "status" holds.
SignReturnValues(signStatus) == { 0, 1 }

\* results of the library calls of VerifySha512Signture: early is FALSE when
\* one of SHA512_Init .. EVP_MD_CTX_new fails; init, update and final are the
\* return codes of EVP_DigestVerifyInit / Update / Final (1 success, 0
\* failure, negative for other errors).  final is 1 only for a valid
\* signature on a context that was set up, and 0 is what a set-up context
\* answers for a signature that does not match.
VerifyOutcomes(valid) ==
  { l \in [ early : BOOLEAN, init : { 1, 0, -1 }, update : { 1, 0, -1 },
            final : { 1, 0, -1 } ] :
      /\ (l.update = 1 => l.init = 1)
      /\ (l.final = 1 => (valid /\ l.init = 1 /\ l.update = 1))
      /\ ((l.final = 0 /\ l.init = 1 /\ l.update = 1) => ~valid) }

\* the run of the library in which nothing but the signature decides
NominalVerify(l) == l.early /\ l.init = 1 /\ l.update = 1 /\ l.final \in { 0, 1 }

\* whether the signature behind the bufferLength bytes at off is the device's
\* signature of them; oob stands for bytes read past the end of the block
SignatureValid(mem, off, bufferLength, device, oob) ==
  LET whole == [ i \in 1 .. bufferLength + M32_FIRMWARE_SIGNATURE_LENGTH |->
                   ReadByte(mem, off + i - 1, oob) ]
  IN  EvpVerify(device.PublicKey, Sha512(whole, 0, bufferLength),
                Slice(whole, bufferLength, M32_FIRMWARE_SIGNATURE_LENGTH))

\* the if/else-if chain of VerifySha512Signture: each result is compared
\* with 0 only
VerifyStatus(l) ==
  IF ~l.early THEN 1
  ELSE IF l.init = 0 THEN 1
  ELSE IF l.update = 0 THEN 1
  ELSE IF l.final = 0 THEN 1
  ELSE 0

(***************************************************************************)
(* The IV text                                                             *)
(***************************************************************************)
\* the two characters sprintf("%02x") writes for a byte
HexDigit(d) == IF d < 10 THEN 48 + d ELSE 87 + d

\* WriteAes128CbcIvToBuffer: 2 * ivLength hex characters (each sprintf also
\* stores a terminating 0 behind its two characters) and a final 0x0A
WriteAes128CbcIvToBuffer(mem, off, iv) ==
  LET text == [ i \in 1 .. 2 * Len(iv) |->
                  IF i % 2 = 1 THEN HexDigit(iv[(i + 1) \div 2] \div 16)
                               ELSE HexDigit(iv[i \div 2] % 16) ]
  IN  Poke(mem, off, text \o << 10 >>)

IsHex(c) == c \in (48 .. 57) \cup (97 .. 102) \cup (65 .. 70)

HexValue(c) ==
  IF c \in 48 .. 57 THEN c - 48
  ELSE IF c \in 97 .. 102 THEN c - 87
  ELSE c - 55

\* ConvertAsciiIvToHexArray: sscanf("%2hhx") on each pair of characters; a
\* pair that does not start with a hex digit leaves ivHex[i] as it was (old,
\* an uninitialised stack byte)
ConvertAsciiIvToHexArray(mem, off, old) ==
  [ i \in 1 .. AES_BLOCK_SIZE |->
      LET c1 == At(mem, off + 2 * (i - 1))
          c2 == At(mem, off + 2 * (i - 1) + 1)
      IN  IF ~IsHex(c1) THEN old
          ELSE IF ~IsHex(c2) THEN HexValue(c1)
          ELSE 16 * HexValue(c1) + HexValue(c2) ]

(***************************************************************************)
(* AES-128-CBC as the tool calls it                                        *)
(***************************************************************************)
EncryptionSalt == << 101, 252, 67, 188, 103, 163, 35, 53 >>

\* "Salted__"
SaltedTag == << 83, 97, 108, 116, 101, 100, 95, 95 >>

\* the parameters as they would be if every device used the first table
\* entry's firmware key
CipherParametersAnyKey(salt, keyString, ivHex) ==
  [ key |-> EVP_BytesToKey(salt, M32FirmwareUtilDeviceInfos[1].FirmwareKey).key,
    iv |-> ivHex ]

\* the parameters as they would be if the cipher got the IV EVP_BytesToKey
\* derives
CipherParametersDerivedIv(salt, keyString, ivHex) ==
  [ key |-> EVP_BytesToKey(salt, keyString).key,
    iv |-> EVP_BytesToKey(salt, keyString).iv ]

\* the key the cipher gets and the IV it gets: the key EVP_BytesToKey derives
\* and the caller's ivHex; the derived iv is not used
CipherParameters(salt, keyString, ivHex) ==
  [ key |-> EVP_BytesToKey(salt, keyString).key, iv |-> ivHex ]

\* EncryptAes128Cbc with plainData = outputBuffer = mem + dataOff: the tag and
\* the salt are stored at saltOff first; then the plainDataLength bytes are
\* encrypted in place.  ok is FALSE when a library call fails.
EncryptAes128Cbc(mem, dataOff, plainDataLength, saltOff, keyString, ivHex, ok) ==
  LET salted == Poke(mem, saltOff, SaltedTag \o EncryptionSalt)
      par == CipherParameters(EncryptionSalt, keyString, ivHex)
      cipher == AesCbcEncrypt(Slice(salted, dataOff, plainDataLength), par.key, par.iv)
  IN  IF ok
        THEN [ mem |-> Poke(salted, dataOff, cipher), status |-> 0,
               encryptedDataLength |-> Len(cipher) ]
        ELSE [ mem |-> salted, status |-> 1, encryptedDataLength |-> 0 ]

\* DecryptAes128Cbc of the encryptedLength bytes at off of mem into out: the
\* salt is read at off + 8, the cipher text starts at off + 16.
\* EVP_DecryptUpdate stores all blocks but the last, EVP_DecryptFinal_ex
\* checks the padding of the last block and stores what precedes the padding.
DecryptAes128Cbc(mem, off, encryptedLength, out, keyString, ivHex, ok) ==
  LET par == CipherParameters(Slice(mem, off + 8, 8), keyString, ivHex)
      n == encryptedLength - 16
      raw == AesCbcDecryptRaw(Slice(mem, off + 16, n), par.key, par.iv)
  IN  IF ~ok THEN [ out |-> out, status |-> 1 ]
      ELSE IF n % AES_BLOCK_SIZE # 0 \/ n = 0
        THEN [ out |-> Poke(out, 0, SubSeq(raw, 1, n - (n % AES_BLOCK_SIZE))),
               status |-> 1 ]
      ELSE IF ~Pkcs7Valid(raw)
        THEN [ out |-> Poke(out, 0, SubSeq(raw, 1, n - AES_BLOCK_SIZE)), status |-> 1 ]
      ELSE [ out |-> Poke(out, 0, SubSeq(raw, 1, n - raw[n])), status |-> 0 ]

(***************************************************************************)
(* Input files                                                             *)
(***************************************************************************)
\* number of fill patterns the small input images are drawn with
NumFill == 2

\* byte at offset i of fill pattern p; pattern 0 is all zero
FillByte(p, i) == IF p = 0 THEN 0 ELSE (i * (2 * p - 1) + 37 * p) % 256

\* an image of size bytes of pattern fill with the magic string at each of
\* the offsets in headers
RecoveryImage(size, headers, magic, fill) ==
  [ i \in 1 .. size |->
      IF \E k \in 1 .. Len(headers) : headers[k] < i /\ i <= headers[k] + Len(magic)
        THEN LET k == CHOOSE k \in 1 .. Len(headers) :
                        headers[k] < i /\ i <= headers[k] + Len(magic)
             IN  magic[i - headers[k]]
        ELSE FillByte(fill, i - 1) ]

M32Magic == DeviceByName("M32").RecoveryHeaderStart

\* an image whose repaired header checksum is "DL" and whose payload starts
\* with the rest of the magic string
ChecksumSpellsMagic ==
  Poke(Poke(RecoveryImage(160, << 0 >>, M32Magic, 0), 16, << 229, 104 >>),
       80, SubSeq(M32Magic, 3, 12))

SmallLayouts ==
  { [ size |-> 79, headers |-> << 0 >> ],
    [ size |-> 80, headers |-> << 0 >> ],
    [ size |-> 100, headers |-> << >> ],
    [ size |-> 180, headers |-> << 0 >> ],
    [ size |-> 181, headers |-> << 0 >> ],
    [ size |-> 200, headers |-> << 0, 90 >> ],
    [ size |-> 200, headers |-> << 0, 40 >> ],
    [ size |-> 201, headers |-> << 0, 91 >> ] }

\* one header more than M32_FIRMWARE_UTIL_MAX_PARTITIONS, each right behind
\* the one before, and 40 bytes behind the last
CrowdedLayout ==
  [ size |-> (M32_FIRMWARE_UTIL_MAX_PARTITIONS + 1) * M32_FIRMWARE_UTIL_FW_HEADER_LENGTH + 40,
    headers |-> [ k \in 1 .. M32_FIRMWARE_UTIL_MAX_PARTITIONS + 1 |->
                    (k - 1) * M32_FIRMWARE_UTIL_FW_HEADER_LENGTH ] ]

LargeLayouts ==
  { [ size |-> 1023, headers |-> << 0 >> ],
    [ size |-> 1024, headers |-> << 0 >> ],
    [ size |-> 1025, headers |-> << 0 >> ],
    [ size |-> 1567, headers |-> << >> ],
    [ size |-> 1568, headers |-> << >> ],
    CrowdedLayout }

\* a file of the minimum size of --DecryptFactoryImage whose outer header
\* declares 2048 bytes
OverlongFactoryImage ==
  Poke(RecoveryImage(1568, << >>, M32Magic, 1), 0, << 77, 72, 48, 49, 0, 8, 0, 0 >>)

InputImages ==
  { RecoveryImage(l.size, l.headers, M32Magic, f) :
      l \in SmallLayouts, f \in 0 .. NumFill - 1 }
  \cup { RecoveryImage(l.size, l.headers, M32Magic, 1) : l \in LargeLayouts }
  \cup { ChecksumSpellsMagic, OverlongFactoryImage }

\* what malloc'ed memory and bytes behind a heap block hold before they are written
GarbageBytes == { 0, 165 }

(***************************************************************************)
(* The command line                                                        *)
(***************************************************************************)
\* the table as it would be without minimum sizes
M32FirmwareUtilOperationsNoMinimum ==
  << [ Argument |-> "--UpdateFirmwareHeader", MinimumFileSize |-> 0 ],
     [ Argument |-> "--CreateFactoryImage", MinimumFileSize |-> 0 ],
     [ Argument |-> "--DecryptFactoryImage", MinimumFileSize |-> 0 ] >>

M32FirmwareUtilOperations ==
  << [ Argument |-> "--UpdateFirmwareHeader",
       MinimumFileSize |-> M32_FIRMWARE_UTIL_FW_HEADER_LENGTH ],
     [ Argument |-> "--CreateFactoryImage", MinimumFileSize |-> 1024 ],
     [ Argument |-> "--DecryptFactoryImage",
       MinimumFileSize |->
         2 * (M32_FIRMWARE_SIGNATURE_LENGTH + M32_FIRMWARE_HEADER_LENGTH) + 1024 ] >>

M32FirmwareUtilOperationsLength == Len(M32FirmwareUtilOperations)

OperationNames ==
  { M32FirmwareUtilOperations[i].Argument : i \in 1 .. M32FirmwareUtilOperationsLength }

OperationByName(name) ==
  M32FirmwareUtilOperations[
    CHOOSE i \in 1 .. M32FirmwareUtilOperationsLength :
      M32FirmwareUtilOperations[i].Argument = name ]

\* argc, argv[1], argv[2] and argv[5]; argv[3] and argv[4] are fixed per invocation
CommandLines ==
  [ argc : { 5 }, device : DeviceNames, operation : OperationNames, argv5 : { "" } ]
  \cup [ argc : { 7 }, device : { "M32" }, operation : { "--CreateFactoryImage" },
         argv5 : { "--debug" } ]
  \cup [ argc : { 4, 6 }, device : { "M32" }, operation : { "--CreateFactoryImage" },
         argv5 : { "" } ]
  \cup [ argc : { 7 }, device : { "M32" }, operation : { "--UpdateFirmwareHeader" },
         argv5 : { "--debug", "--verbose" } ]
  \cup [ argc : { 5 }, device : { "M99" }, operation : { "--UpdateFirmwareHeader" },
         argv5 : { "" } ]
  \cup [ argc : { 5 }, device : { "M32" }, operation : { "--Help" }, argv5 : { "" } ]

\* what the second invocation does: a repaired image is repaired again, a
\* factory image is decrypted, or the factory image is built once more from
\* the same input
FollowUps(operation) ==
  IF operation = "--CreateFactoryImage"
    THEN { "--DecryptFactoryImage", "--CreateFactoryImage" }
    ELSE { "--UpdateFirmwareHeader" }

InputFileArg ==
  IF run = 1 \/ argv.operation = "--CreateFactoryImage" THEN "input" ELSE "output1"
OutputFileArg == IF run = 1 THEN "output1" ELSE "output2"

NoFile == [ exists |-> FALSE, data |-> << >> ]

NoLocals ==
  [ st_size |-> 0, debug |-> FALSE, fault |-> FALSE, stageFailed |-> FALSE,
    wrote |-> FALSE,
    partitionCount |-> 0, headerAddresses |-> << >>, partition |-> 0,
    signStatus |-> 0, encryptedDataLength |-> 0,
    currentBlockLength |-> SizeT(0), currentBlockOffset |-> 0, ivHex |-> << >> ]

(***************************************************************************)
(* main                                                                    *)
(***************************************************************************)
Init ==
  /\ pc = "shell"
  /\ run = 0
  /\ argv = [ argc |-> 0, device |-> "", operation |-> "", argv5 |-> "" ]
  /\ \E image \in InputImages, present \in BOOLEAN :
       files = [ name \in { "input", "output1", "output2" } |->
                   IF name = "input" /\ present
                     THEN [ exists |-> TRUE, data |-> image ]
                     ELSE NoFile ]
  /\ debugFiles = { }
  /\ inputOpen = FALSE
  /\ bytesRead = 0
  /\ outputOpens = 0
  /\ heap = [ mallocs |-> 0, frees |-> 0 ]
  /\ buffer = << >>
  /\ decrpytedData = << >>
  /\ locals = NoLocals
  /\ status = 1
  /\ exitCode = -1
  /\ history = << >>

\* the process ends: its memory and handles are gone, the files stay
Exit(code) ==
  /\ pc' = "shell"
  /\ exitCode' = code
  /\ history' = Append(history,
                       [ argv |-> argv, exitCode |-> code, fault |-> locals.fault,
                         stageFailed |-> locals.stageFailed,
                         wrote |-> locals.wrote, outputOpens |-> outputOpens,
                         mallocs |-> heap.mallocs, frees |-> heap.frees,
                         bytesRead |-> bytesRead ])
  /\ inputOpen' = FALSE
  /\ buffer' = << >>
  /\ decrpytedData' = << >>
  /\ locals' = NoLocals
  /\ heap' = [ mallocs |-> 0, frees |-> 0 ]
  /\ bytesRead' = 0
  /\ outputOpens' = 0
  /\ status' = 1

\* the shell starts the tool; the second invocation reads the file the first wrote
Invoke ==
  /\ pc = "shell"
  /\ \/ run = 0
     \/ run = 1 /\ files["output1"].exists /\ ~history[1].fault
  /\ \E line \in CommandLines :
       /\ run = 1 => line.operation \in FollowUps(history[1].argv.operation)
       /\ ( run = 1 /\ line.operation = "--CreateFactoryImage" )
            => ( line.device = history[1].argv.device /\ line.argc \in { 5, 7 } )
       /\ argv' = line
  /\ run' = run + 1
  /\ pc' = "main"
  /\ exitCode' = -1
  /\ UNCHANGED << files, debugFiles, inputOpen, bytesRead, outputOpens, heap,
                  buffer, decrpytedData, locals, status, history >>

\* main as it would be without the test of the argument count
Main_ArgumentsAnyCount ==
  /\ pc = "main"
  /\ IF argv.operation \notin OperationNames \/ argv.device \notin DeviceNames
       THEN Exit(1) /\ UNCHANGED << run, argv, files, debugFiles >>
     ELSE /\ pc' = "main_open"
          /\ locals' = [ locals EXCEPT
                           !.debug = (argv.argc > 6 /\ argv.argv5 = "--debug") ]
          /\ UNCHANGED << run, argv, files, debugFiles, inputOpen, bytesRead,
                          outputOpens, heap, buffer, decrpytedData, status,
                          exitCode, history >>

\* main up to the opening of the input file: the argument count, the two table
\* lookups, the debug flags, PrintUsage
Main_Arguments ==
  /\ pc = "main"
  /\ IF argv.argc # 5 /\ argv.argc # 7
       THEN Exit(1) /\ UNCHANGED << run, argv, files, debugFiles >>
     ELSE IF argv.operation \notin OperationNames \/ argv.device \notin DeviceNames
       THEN Exit(1) /\ UNCHANGED << run, argv, files, debugFiles >>
     ELSE /\ pc' = "main_open"
          /\ locals' = [ locals EXCEPT
                           !.debug = (argv.argc > 6 /\ argv.argv5 = "--debug") ]
          /\ UNCHANGED << run, argv, files, debugFiles, inputOpen, bytesRead,
                          outputOpens, heap, buffer, decrpytedData, status,
                          exitCode, history >>

OperationStart(operation) ==
  CASE operation = "--UpdateFirmwareHeader" -> "update_alloc"
    [] operation = "--CreateFactoryImage" -> "create_alloc"
    [] operation = "--DecryptFactoryImage" -> "decrypt_alloc"

\* fopen(inputFileArg, "rb+"), fileno, fstat and the minimum size test
Main_Open ==
  /\ pc = "main_open"
  /\ \E failing \in { "none", "fopen", "fileno", "fstat" } :
       LET size == Len(files[InputFileArg].data)
           opened == files[InputFileArg].exists /\ failing # "fopen"
       IN  /\ inputOpen' = opened
           /\ IF ~opened \/ failing # "none"
                THEN /\ pc' = "main_close"
                     /\ locals' = [ locals EXCEPT !.fault = TRUE, !.stageFailed = TRUE ]
              ELSE IF size < OperationByName(argv.operation).MinimumFileSize
                THEN /\ pc' = "main_close"
                     /\ locals' = [ locals EXCEPT !.stageFailed = TRUE ]
              ELSE /\ pc' = OperationStart(argv.operation)
                   /\ locals' = [ locals EXCEPT !.st_size = size ]
  /\ status' = 1
  /\ UNCHANGED << run, argv, files, debugFiles, bytesRead, outputOpens, heap,
                  buffer, decrpytedData, exitCode, history >>

\* fclose(file) when it was opened, return status
Main_Close ==
  /\ pc = "main_close"
  /\ Exit(status)
  /\ UNCHANGED << run, argv, files, debugFiles >>

(***************************************************************************)
(* Helpers of the three operations                                         *)
(***************************************************************************)
Device == DeviceByName(argv.device)

\* the end of an operation as it would be without the free calls
ReturnWithoutFree(result, blocks) ==
  /\ pc' = "main_close"
  /\ status' = result
  /\ heap' = heap
  /\ buffer' = << >>
  /\ decrpytedData' = << >>

\* the end of an operation: its heap blocks are freed and "status" goes to main
Return(result, blocks) ==
  /\ pc' = "main_close"
  /\ status' = result
  /\ heap' = [ heap EXCEPT !.frees = @ + blocks ]
  /\ buffer' = << >>
  /\ decrpytedData' = << >>

\* WriteBufferToFile: fopen(outputFile, "wb") creates or empties the file,
\* fwrite stores the bytes; failing names the call that fails
WriteBufferToFile(data, failing) ==
  IF failing = "fopen" THEN files
  ELSE [ files EXCEPT ![OutputFileArg] =
           [ exists |-> TRUE, data |-> IF failing = "fwrite" THEN << >> ELSE data ] ]

\* the exit status of a process the kernel ended with SIGSEGV
SegmentationFault == 139

(***************************************************************************)
(* UpdateHeaderInRecoveryImage                                             *)
(***************************************************************************)
\* the offsets below limit at which the bytes of magic stand in mem
HeaderMatches(mem, limit, magic) ==
  { bufferIndex \in 0 .. limit - 1 :
      \A k \in 1 .. Len(magic) : mem[bufferIndex + k] = magic[k] }

\* the search loop as it would be without "partitionCount ==
\* M32_FIRMWARE_UTIL_MAX_PARTITIONS -> break": every match is recorded
FindHeadersNoCap(mem, limit, magic) ==
  LET matches == HeaderMatches(mem, limit, magic)
  IN  [ k \in 1 .. Cardinality(matches) |->
          CHOOSE a \in matches : Cardinality({ b \in matches : b < a }) = k - 1 ]

\* the search loop: the first M32_FIRMWARE_UTIL_MAX_PARTITIONS matches in
\* ascending order
FindHeaders(mem, limit, magic) ==
  LET matches == HeaderMatches(mem, limit, magic)
      count == IF Cardinality(matches) > M32_FIRMWARE_UTIL_MAX_PARTITIONS
                 THEN M32_FIRMWARE_UTIL_MAX_PARTITIONS
                 ELSE Cardinality(matches)
  IN  [ k \in 1 .. count |->
          CHOOSE a \in matches : Cardinality({ b \in matches : b < a }) = k - 1 ]

\* partitionLength as it would be without "partitionLength -=
\* M32_FIRMWARE_UTIL_FW_HEADER_LENGTH"
PartitionLengthWithHeader(headerAddresses, partition, st_size) ==
  LET next == IF partition + 1 < M32_FIRMWARE_UTIL_MAX_PARTITIONS
                   /\ partition + 1 < Len(headerAddresses)
                THEN headerAddresses[partition + 2]
                ELSE st_size
  IN  SizeSub(SizeT(next), SizeT(headerAddresses[partition + 1]))

\* partitionLength of the partition numbered partition (from 0), as size_t
PartitionLength(headerAddresses, partition, st_size) ==
  LET next == IF partition + 1 < M32_FIRMWARE_UTIL_MAX_PARTITIONS
                   /\ partition + 1 < Len(headerAddresses)
                THEN headerAddresses[partition + 2]
                ELSE st_size
  IN  SizeSub(SizeSub(SizeT(next), SizeT(headerAddresses[partition + 1])),
              SizeT(M32_FIRMWARE_UTIL_FW_HEADER_LENGTH))

\* the body of the partition loop on mem: the length field, the data
\* checksum, the header checksum
\* (the old length is only compared: whenever it differs, however it was
\* extended, the field gets the new length, and when it is equal the field
\* holds the new length already)
UpdatePartition(mem, partitionStart, partitionLength, oob) ==
  LET partitionLengthOld ==
        IntToSizeT(Slice(mem, partitionStart + M32_FIRMWARE_UTIL_FW_DATA_LENGTH_OFFSET, 4),
                   "sign")
      sized == IF partitionLengthOld # partitionLength
                 THEN Poke(mem, partitionStart + M32_FIRMWARE_UTIL_FW_DATA_LENGTH_OFFSET,
                           LowWord(partitionLength))
                 ELSE mem
      summed == Caclulate16BitSum(
                  sized, partitionStart + M32_FIRMWARE_UTIL_FW_HEADER_LENGTH,
                  ToInt(partitionLength),
                  partitionStart + CHECKUM_PATCHER_DATA_CHECKSUM_OFFSET, FALSE, oob)
  IN  Caclulate16BitSum(
        summed, partitionStart, CHECKUM_PATCHER_HEADER_CHECKSUM_OFFSET,
        partitionStart + CHECKUM_PATCHER_HEADER_CHECKSUM_OFFSET, TRUE, oob)

\* buffer = malloc(st_size)
Update_Alloc ==
  /\ pc = "update_alloc"
  /\ \E failing \in BOOLEAN, garbage \in GarbageBytes :
       IF failing
         THEN /\ Return(1, 0)
              /\ locals' = [ locals EXCEPT !.fault = TRUE, !.stageFailed = TRUE ]
         ELSE /\ buffer' = [ i \in 1 .. locals.st_size |-> garbage ]
              /\ heap' = [ heap EXCEPT !.mallocs = @ + 1 ]
              /\ pc' = "update_read"
              /\ UNCHANGED << decrpytedData, locals, status >>
  /\ UNCHANGED << run, argv, files, debugFiles, inputOpen, bytesRead, outputOpens,
                  exitCode, history >>

\* fread(buffer, 1, st_size, file)
Update_Read ==
  /\ pc = "update_read"
  /\ \E failing \in BOOLEAN :
       IF failing
         THEN /\ Return(1, 1)
              /\ locals' = [ locals EXCEPT !.fault = TRUE, !.stageFailed = TRUE ]
              /\ UNCHANGED bytesRead
         ELSE /\ buffer' = files[InputFileArg].data
              /\ bytesRead' = locals.st_size
              /\ pc' = "update_scan"
              /\ UNCHANGED << decrpytedData, locals, status, heap >>
  /\ UNCHANGED << run, argv, files, debugFiles, inputOpen, outputOpens,
                  exitCode, history >>

\* the search for partition headers
Update_Scan ==
  /\ pc = "update_scan"
  /\ LET found == FindHeaders(buffer,
                              locals.st_size - M32_FIRMWARE_UTIL_FW_HEADER_LENGTH,
                              Device.RecoveryHeaderStart)
     IN  /\ locals' = [ locals EXCEPT !.headerAddresses = found,
                                      !.partitionCount = Len(found),
                                      !.partition = 0 ]
         /\ pc' = IF Len(found) = 0 THEN "update_write" ELSE "update_partition"
  /\ UNCHANGED << run, argv, files, debugFiles, inputOpen, bytesRead, outputOpens,
                  heap, buffer, decrpytedData, status, exitCode, history >>

\* one pass of the partition loop.  A length that wrapped below zero sends the
\* checksum loop far beyond the heap block: the process is killed.  An odd
\* length in the last partition reads one byte behind the block.
Update_Partition ==
  /\ pc = "update_partition"
  /\ \E oob \in GarbageBytes :
       LET partitionStart == locals.headerAddresses[locals.partition + 1]
           partitionLength == PartitionLength(locals.headerAddresses,
                                              locals.partition, locals.st_size)
       IN  IF ~IsSmall(partitionLength)
             THEN /\ Exit(SegmentationFault)
                  /\ UNCHANGED << run, argv, files, debugFiles >>
             ELSE /\ buffer' = UpdatePartition(buffer, partitionStart,
                                               partitionLength, oob)
                  /\ locals' = [ locals EXCEPT !.partition = @ + 1 ]
                  /\ pc' = IF locals.partition + 1 < locals.partitionCount
                             THEN "update_partition" ELSE "update_write"
                  /\ UNCHANGED << run, argv, files, debugFiles, inputOpen,
                                  bytesRead, outputOpens, heap, decrpytedData,
                                  status, exitCode, history >>

\* "No partitions found", or WriteBufferToFile of the whole buffer; then
\* free(buffer) and return status
Update_Write ==
  /\ pc = "update_write"
  /\ \E failing \in { "none", "fopen", "fwrite" } :
       IF locals.partitionCount = 0
         THEN /\ Return(1, 1)
              /\ locals' = [ locals EXCEPT !.stageFailed = TRUE ]
              /\ UNCHANGED << files, outputOpens >>
         ELSE /\ files' = WriteBufferToFile(buffer, failing)
              /\ outputOpens' = outputOpens + 1
              /\ Return(IF failing = "none" THEN 0 ELSE 1, 1)
              /\ locals' = [ locals EXCEPT !.fault = @ \/ failing # "none",
                                           !.stageFailed = @ \/ failing # "none",
                                           !.wrote = (failing = "none") ]
  /\ UNCHANGED << run, argv, debugFiles, inputOpen, bytesRead, exitCode, history >>

(***************************************************************************)
(* CreateFactoryImageFromRecoveryImage                                     *)
(***************************************************************************)
\* uint8_t IV[16]
IV == << 153, 56, 12, 37, 174, 204, 121, 211, 155, 20, 90, 192, 67, 83, 187, 233 >>

\* the offsets of the pointers into factoryImage
factoryImageHeader == 0
encryptionHeader == factoryImageHeader + M32_FIRMWARE_HEADER_LENGTH
ecnryptionInfo == encryptionHeader + M32_FIRMWARE_HEADER_LENGTH
saltHeader == ecnryptionInfo + M32_FIRMWARE_INITIALIZATION_VECTOR_LENGTH
recoveryImageWithHeader == ecnryptionInfo + M32_FIRMWARE_DECRYPTION_INFO_LENGTH
recoveryImage == recoveryImageWithHeader + M32_FIRMWARE_HEADER_LENGTH

factoryImageSize(recoveryImageSize) ==
  recoveryImageSize + 3 * M32_FIRMWARE_HEADER_LENGTH
    + 2 * M32_FIRMWARE_SIGNATURE_LENGTH + M32_FIRMWARE_DECRYPTION_INFO_LENGTH

encryptedImageWithoutHeaderSize(recoveryImageSize) ==
  recoveryImageSize + M32_FIRMWARE_HEADER_LENGTH + M32_FIRMWARE_SIGNATURE_LENGTH

\* a stage of the else-if chain failed: free(factoryImage), return 1
Create_Abort(environment) ==
  /\ Return(1, 1)
  /\ locals' = [ locals EXCEPT !.fault = @ \/ environment, !.stageFailed = TRUE ]

\* a stage of the chain that cannot fail and only changes the buffer
Create_Step(next, mem) ==
  /\ buffer' = mem
  /\ pc' = next
  /\ UNCHANGED << run, argv, files, debugFiles, inputOpen, bytesRead, outputOpens,
                  heap, decrpytedData, locals, status, exitCode, history >>

\* the allocation as it would be without the block added for the padding
Create_AllocWithoutPadding ==
  /\ pc = "create_alloc"
  /\ \E failing \in BOOLEAN, garbage \in GarbageBytes :
       IF failing
         THEN /\ Return(1, 0)
              /\ locals' = [ locals EXCEPT !.fault = TRUE, !.stageFailed = TRUE ]
         ELSE /\ buffer' = [ i \in 1 .. factoryImageSize(locals.st_size) |-> garbage ]
              /\ heap' = [ heap EXCEPT !.mallocs = @ + 1 ]
              /\ pc' = "create_read"
              /\ UNCHANGED << decrpytedData, locals, status >>
  /\ UNCHANGED << run, argv, files, debugFiles, inputOpen, bytesRead, outputOpens,
                  exitCode, history >>

\* factoryImage = malloc(factoryImageSize + AES_BLOCK_SIZE)
Create_Alloc ==
  /\ pc = "create_alloc"
  /\ \E failing \in BOOLEAN, garbage \in GarbageBytes :
       IF failing
         THEN /\ Return(1, 0)
              /\ locals' = [ locals EXCEPT !.fault = TRUE, !.stageFailed = TRUE ]
         ELSE /\ buffer' = [ i \in 1 .. factoryImageSize(locals.st_size) + AES_BLOCK_SIZE
                               |-> garbage ]
              /\ heap' = [ heap EXCEPT !.mallocs = @ + 1 ]
              /\ pc' = "create_read"
              /\ UNCHANGED << decrpytedData, locals, status >>
  /\ UNCHANGED << run, argv, files, debugFiles, inputOpen, bytesRead, outputOpens,
                  exitCode, history >>

\* fread(recoveryImage, 1, st_size, file)
Create_Read ==
  /\ pc = "create_read"
  /\ \E failing \in BOOLEAN :
       IF failing
         THEN Create_Abort(TRUE) /\ UNCHANGED bytesRead
         ELSE /\ buffer' = Poke(buffer, recoveryImage, files[InputFileArg].data)
              /\ bytesRead' = locals.st_size
              /\ pc' = "create_inner_header"
              /\ UNCHANGED << decrpytedData, locals, status, heap >>
  /\ UNCHANGED << run, argv, files, debugFiles, inputOpen, outputOpens,
                  exitCode, history >>

\* CreateSha512VerificatioinHeader(recoveryImageWithHeader, recoveryImageSize)
Create_InnerHeader ==
  /\ pc = "create_inner_header"
  /\ Create_Step("create_inner_sign",
                 CreateSha512VerificatioinHeader(buffer, recoveryImageWithHeader,
                                                 SizeT(locals.st_size)))

\* a call of CreateSha512VerificatioinSignature and the test of what it
\* returned
Create_Sign(next, off, imageSize) ==
  /\ \E signed \in { CreateSha512VerificatioinSignature(buffer, off, imageSize,
                                                          Device, failingStep) :
                        failingStep \in SignSteps } :
           \E returned \in SignReturnValues(signed.status) :
             IF returned # 0
               THEN /\ Return(1, 1)
                    /\ locals' = [ locals EXCEPT
                                     !.fault = @ \/ signed.status # 0,
                                     !.stageFailed = @ \/ signed.status # 0 ]
               ELSE /\ buffer' = signed.mem
                    /\ pc' = next
                    /\ locals' = [ locals EXCEPT
                                     !.fault = @ \/ signed.status # 0,
                                     !.stageFailed = @ \/ signed.status # 0 ]
                    /\ UNCHANGED << heap, decrpytedData, status >>
  /\ UNCHANGED << run, argv, files, debugFiles, inputOpen, bytesRead, outputOpens,
                  exitCode, history >>

\* the inner signature as it would be over the header and the image together
Create_InnerSignFramed ==
  /\ pc = "create_inner_sign"
  /\ Create_Sign("create_debug_sig1", recoveryImageWithHeader,
                 locals.st_size + M32_FIRMWARE_HEADER_LENGTH)

\* CreateSha512VerificatioinSignature(recoveryImage, recoveryImageSize, device)
Create_InnerSign ==
  /\ pc = "create_inner_sign"
  /\ Create_Sign("create_debug_sig1", recoveryImage, locals.st_size)

\* WriteDebugBufferToFile(buffer + off, size, name): nothing happens without
\* --debug; with it the path is malloc'ed (unchecked) and the bytes are
\* written with WriteBufferToFile
Create_Debug(next, off, size, name) ==
  /\ \E failing \in { "none", "malloc", "fopen", "fwrite" } :
       IF ~locals.debug
         THEN /\ pc' = next
              /\ UNCHANGED << debugFiles, heap, buffer, decrpytedData, locals,
                              status, exitCode, history, inputOpen, bytesRead,
                              outputOpens >>
       ELSE IF failing = "malloc"
         THEN Exit(SegmentationFault) /\ UNCHANGED debugFiles
       ELSE IF failing = "none"
         THEN /\ pc' = next
              /\ debugFiles' = debugFiles \cup { [ name |-> name, size |-> size ] }
              /\ UNCHANGED << heap, buffer, decrpytedData, locals, status,
                              exitCode, history, inputOpen, bytesRead,
                              outputOpens >>
       ELSE /\ Create_Abort(TRUE)
            /\ UNCHANGED << debugFiles, exitCode, history, inputOpen, bytesRead,
                            outputOpens >>
  /\ UNCHANGED << run, argv, files >>

Create_DebugSig1 ==
  /\ pc = "create_debug_sig1"
  /\ Create_Debug("create_debug_fw", recoveryImage + locals.st_size,
                  M32_FIRMWARE_SIGNATURE_LENGTH, "Sig1.bin")

Create_DebugFwAndSig1 ==
  /\ pc = "create_debug_fw"
  /\ Create_Debug("create_encrypt", recoveryImageWithHeader,
                  encryptedImageWithoutHeaderSize(locals.st_size), "FW_and_Sig1.bin")

\* EncryptAes128Cbc(recoveryImageWithHeader, encryptedImageWithoutHeaderSize,
\*                  recoveryImageWithHeader, saltHeader, FirmwareKey, IV, ...)
Create_Encrypt ==
  /\ pc = "create_encrypt"
  /\ \E ok \in BOOLEAN :
       LET encrypted == EncryptAes128Cbc(
                          buffer, recoveryImageWithHeader,
                          encryptedImageWithoutHeaderSize(locals.st_size),
                          saltHeader, Device.FirmwareKey, IV, ok)
       IN  IF encrypted.status # 0
             THEN Create_Abort(TRUE)
             ELSE /\ buffer' = encrypted.mem
                  /\ locals' = [ locals EXCEPT
                                   !.encryptedDataLength = encrypted.encryptedDataLength ]
                  /\ pc' = "create_debug_fwenc"
                  /\ UNCHANGED << heap, decrpytedData, status >>
  /\ UNCHANGED << run, argv, files, debugFiles, inputOpen, bytesRead, outputOpens,
                  exitCode, history >>

Create_DebugFWenc ==
  /\ pc = "create_debug_fwenc"
  /\ Create_Debug("create_encryption_header", saltHeader,
                  locals.encryptedDataLength + M32_FIRMWARE_SALT_INFO_LENGTH,
                  "FWenc.bin")

\* CreateAes128CbcEncryptionHeader(encryptionHeader, encryptedDataLength + 16)
Create_EncryptionHeader ==
  /\ pc = "create_encryption_header"
  /\ Create_Step("create_write_iv",
                 CreateAes128CbcEncryptionHeader(
                   buffer, encryptionHeader,
                   SizeT(locals.encryptedDataLength + M32_FIRMWARE_SALT_INFO_LENGTH)))

\* WriteAes128CbcIvToBuffer(ecnryptionInfo, IV, sizeof(IV))
Create_WriteIv ==
  /\ pc = "create_write_iv"
  /\ Create_Step("create_debug_iv", WriteAes128CbcIvToBuffer(buffer, ecnryptionInfo, IV))

Create_DebugIv ==
  /\ pc = "create_debug_iv"
  /\ Create_Debug("create_outer_header", ecnryptionInfo,
                  M32_FIRMWARE_INITIALIZATION_VECTOR_LENGTH, "IV.bin")

\* the outer length as it would be without the encryption header's 16 bytes
OuterLengthWithoutHeader(encryptedDataLength) ==
  encryptedDataLength + M32_FIRMWARE_DECRYPTION_INFO_LENGTH

\* the length the outer header stores and the outer signature covers
OuterLength(encryptedDataLength) ==
  encryptedDataLength + M32_FIRMWARE_DECRYPTION_INFO_LENGTH + M32_FIRMWARE_HEADER_LENGTH

\* CreateSha512VerificatioinHeader(factoryImageHeader, ...)
Create_OuterHeader ==
  /\ pc = "create_outer_header"
  /\ Create_Step("create_outer_sign",
                 CreateSha512VerificatioinHeader(
                   buffer, factoryImageHeader,
                   SizeT(OuterLength(locals.encryptedDataLength))))

\* CreateSha512VerificatioinSignature(encryptionHeader, ..., device)
Create_OuterSign ==
  /\ pc = "create_outer_sign"
  /\ Create_Sign("create_write", encryptionHeader,
                 OuterLength(locals.encryptedDataLength))

\* WriteBufferToFile(factoryImage, ...), free(factoryImage), return status
Create_Write ==
  /\ pc = "create_write"
  /\ \E failing \in { "none", "fopen", "fwrite" } :
       /\ files' = WriteBufferToFile(
                     SubSeq(buffer, 1,
                            OuterLength(locals.encryptedDataLength)
                              + M32_FIRMWARE_HEADER_LENGTH
                              + M32_FIRMWARE_SIGNATURE_LENGTH),
                     failing)
       /\ outputOpens' = outputOpens + 1
       /\ Return(IF failing = "none" THEN 0 ELSE 1, 1)
       /\ locals' = [ locals EXCEPT !.fault = @ \/ failing # "none",
                                    !.stageFailed = @ \/ failing # "none",
                                    !.wrote = (failing = "none") ]
  /\ UNCHANGED << run, argv, debugFiles, inputOpen, bytesRead, exitCode, history >>

(***************************************************************************)
(* DecryptFactoryImage                                                     *)
(***************************************************************************)
\* a stage of the else-if chain failed: both blocks are freed, return 1
Decrypt_Abort(environment) ==
  /\ Return(1, IF decrpytedData = << >> THEN 1 ELSE 2)
  /\ locals' = [ locals EXCEPT !.fault = @ \/ environment, !.stageFailed = TRUE ]

\* "(currentBlockOffset += step) > st_size"
OffsetOutOfRange(step) == locals.currentBlockOffset + step > locals.st_size

\* fileBuffer = malloc(st_size)
Decrypt_Alloc ==
  /\ pc = "decrypt_alloc"
  /\ \E failing \in BOOLEAN, garbage \in GarbageBytes :
       IF failing
         THEN /\ Return(1, 0)
              /\ locals' = [ locals EXCEPT !.fault = TRUE, !.stageFailed = TRUE ]
         ELSE /\ buffer' = [ i \in 1 .. locals.st_size |-> garbage ]
              /\ heap' = [ heap EXCEPT !.mallocs = @ + 1 ]
              /\ pc' = "decrypt_read"
              /\ UNCHANGED << decrpytedData, locals, status >>
  /\ UNCHANGED << run, argv, files, debugFiles, inputOpen, bytesRead, outputOpens,
                  exitCode, history >>

\* fread(fileBuffer, 1, st_size, file)
Decrypt_Read ==
  /\ pc = "decrypt_read"
  /\ \E failing \in BOOLEAN :
       IF failing
         THEN Decrypt_Abort(TRUE) /\ UNCHANGED bytesRead
         ELSE /\ buffer' = files[InputFileArg].data
              /\ bytesRead' = locals.st_size
              /\ pc' = "decrypt_outer_header"
              /\ UNCHANGED << decrpytedData, locals, status, heap >>
  /\ UNCHANGED << run, argv, files, debugFiles, inputOpen, outputOpens,
                  exitCode, history >>

\* a GetDataLengthFrom...Header call (header is what it returned) and the
\* offset test that follows it
Decrypt_Header(next, header) ==
  /\ IF header.status # 0 \/ OffsetOutOfRange(M32_FIRMWARE_HEADER_LENGTH)
       THEN Decrypt_Abort(FALSE)
       ELSE /\ locals' = [ locals EXCEPT
                             !.currentBlockLength = header.dataLength,
                             !.currentBlockOffset = @ + M32_FIRMWARE_HEADER_LENGTH ]
            /\ pc' = next
            /\ UNCHANGED << heap, buffer, decrpytedData, status >>
  /\ UNCHANGED << run, argv, files, debugFiles, inputOpen, bytesRead, outputOpens,
                  exitCode, history >>

\* offset 0x00: the header of the whole image
Decrypt_OuterHeader ==
  /\ pc = "decrypt_outer_header"
  /\ \E extension \in IntExtensions :
       Decrypt_Header("decrypt_verify_outer",
                      GetDataLengthFromVerificationHeader(
                        buffer, locals.currentBlockOffset, locals.currentBlockLength,
                        extension))

\* a call of VerifySha512Signture on the bufferLength bytes at off of mem and
\* the test of what it returned.  Bytes behind the block are indeterminate; a
\* range that ends further behind the block than the block is long leaves the
\* mapped memory.
Decrypt_Verify(next, mem, off, bufferLength) ==
  /\ IF \/ ~IsSmall(bufferLength)
        \/ off + ToInt(bufferLength) + M32_FIRMWARE_SIGNATURE_LENGTH > 2 * Len(mem)
       THEN Exit(SegmentationFault)
       ELSE \E oob \in IF off + ToInt(bufferLength) + M32_FIRMWARE_SIGNATURE_LENGTH
                                > Len(mem)
                           THEN GarbageBytes ELSE { 0 } :
              \E valid \in { SignatureValid(mem, off, ToInt(bufferLength), Device, oob) } :
                  \E verified \in { [ status |-> VerifyStatus(l),
                                       nominal |-> NominalVerify(l),
                                       final |-> l.final ] : l \in VerifyOutcomes(valid) } :
                    IF verified.status # 0
                      THEN /\ Decrypt_Abort(~verified.nominal)
                           /\ UNCHANGED << exitCode, history, inputOpen, bytesRead,
                                           outputOpens >>
                      ELSE /\ pc' = next
                           /\ locals' = [ locals EXCEPT
                                            !.fault = @ \/ ~verified.nominal,
                                            !.stageFailed = @ \/ verified.final # 1 ]
                           /\ UNCHANGED << heap, buffer, decrpytedData, status,
                                           exitCode, history, inputOpen, bytesRead,
                                           outputOpens >>
  /\ UNCHANGED << run, argv, files, debugFiles >>

\* offset 0x10: VerifySha512Signture(&fileBuffer[16], currentBlockLength, device)
Decrypt_VerifyOuter ==
  /\ pc = "decrypt_verify_outer"
  /\ Decrypt_Verify("decrypt_encryption_header", buffer, locals.currentBlockOffset,
                    locals.currentBlockLength)

\* offset 0x10: the encryption header
Decrypt_EncryptionHeader ==
  /\ pc = "decrypt_encryption_header"
  /\ \E extension \in IntExtensions :
       Decrypt_Header("decrypt_convert_iv",
                      GetDataLengthFromEncryptionHeader(
                        buffer, locals.currentBlockOffset, locals.currentBlockLength,
                        extension))

\* offset 0x20: ConvertAsciiIvToHexArray into the uninitialised ivHex, then
\* the offset test
Decrypt_ConvertIv ==
  /\ pc = "decrypt_convert_iv"
  /\ \E old \in GarbageBytes :
       IF OffsetOutOfRange(M32_FIRMWARE_INITIALIZATION_VECTOR_LENGTH)
         THEN Decrypt_Abort(FALSE)
         ELSE /\ locals' = [ locals EXCEPT
                               !.ivHex = ConvertAsciiIvToHexArray(
                                           buffer, locals.currentBlockOffset, old),
                               !.currentBlockOffset =
                                 @ + M32_FIRMWARE_INITIALIZATION_VECTOR_LENGTH ]
              /\ pc' = "decrypt_alloc_decrypted"
              /\ UNCHANGED << heap, buffer, decrpytedData, status >>
  /\ UNCHANGED << run, argv, files, debugFiles, inputOpen, bytesRead, outputOpens,
                  exitCode, history >>

\* decrpytedData = malloc(currentBlockLength); a sign-extended length is more
\* than malloc can give
Decrypt_AllocDecrypted ==
  /\ pc = "decrypt_alloc_decrypted"
  /\ \E failing \in BOOLEAN, garbage \in GarbageBytes :
       IF failing \/ ~IsSmall(locals.currentBlockLength)
         THEN Decrypt_Abort(TRUE)
         ELSE /\ decrpytedData' = [ i \in 1 .. ToInt(locals.currentBlockLength)
                                     |-> garbage ]
              /\ heap' = [ heap EXCEPT !.mallocs = @ + 1 ]
              /\ pc' = "decrypt_decrypt"
              /\ UNCHANGED << buffer, locals, status >>
  /\ UNCHANGED << run, argv, files, debugFiles, inputOpen, bytesRead, outputOpens,
                  exitCode, history >>

\* offset 0x31: DecryptAes128Cbc(&fileBuffer[49 + 16], currentBlockLength, ...).
\* A length below 16 wraps in "encryptedLength -= 16" and a length that
\* passes the end of fileBuffer is read off the block: the library fails or
\* the process is killed.
Decrypt_Decrypt ==
  /\ pc = "decrypt_decrypt"
  /\ \E ok \in BOOLEAN :
       IF \/ ToInt(locals.currentBlockLength) < M32_FIRMWARE_SALT_INFO_LENGTH
          \/ locals.currentBlockOffset + ToInt(locals.currentBlockLength) > Len(buffer)
         THEN IF ok
                THEN Exit(SegmentationFault)
                ELSE /\ Decrypt_Abort(TRUE)
                     /\ UNCHANGED << exitCode, history, inputOpen, bytesRead,
                                     outputOpens >>
         ELSE LET decrypted == DecryptAes128Cbc(
                                 buffer, locals.currentBlockOffset,
                                 ToInt(locals.currentBlockLength), decrpytedData,
                                 Device.FirmwareKey, locals.ivHex, ok)
              IN  IF decrypted.status # 0
                    THEN /\ Decrypt_Abort(~ok)
                         /\ UNCHANGED << exitCode, history, inputOpen, bytesRead,
                                         outputOpens >>
                    ELSE /\ decrpytedData' = decrypted.out
                         /\ pc' = "decrypt_inner_header"
                         /\ UNCHANGED << heap, buffer, locals, status, exitCode,
                                         history, inputOpen, bytesRead, outputOpens >>
  /\ UNCHANGED << run, argv, files, debugFiles >>

\* still offset 0x31, decrypted: the header of the recovery image
Decrypt_InnerHeader ==
  /\ pc = "decrypt_inner_header"
  /\ \E extension \in IntExtensions :
       Decrypt_Header("decrypt_verify_inner",
                      GetDataLengthFromVerificationHeader(
                        decrpytedData, 0, locals.currentBlockLength, extension))

\* VerifySha512Signture(decrpytedData + 16, currentBlockLength, device)
Decrypt_VerifyInner ==
  /\ pc = "decrypt_verify_inner"
  /\ Decrypt_Verify("decrypt_write", decrpytedData, M32_FIRMWARE_HEADER_LENGTH,
                    locals.currentBlockLength)

\* WriteBufferToFile(decrpytedData + 16, currentBlockLength, outputFile), the
\* two free calls, return status
Decrypt_Write ==
  /\ pc = "decrypt_write"
  /\ \E failing \in { "none", "fopen", "fwrite" }, oob \in GarbageBytes :
       /\ files' = WriteBufferToFile(
                     [ i \in 1 .. ToInt(locals.currentBlockLength) |->
                         ReadByte(decrpytedData, M32_FIRMWARE_HEADER_LENGTH + i - 1, oob) ],
                     failing)
       /\ outputOpens' = outputOpens + 1
       /\ Return(IF failing = "none" THEN 0 ELSE 1, 2)
       /\ locals' = [ locals EXCEPT !.fault = @ \/ failing # "none",
                                    !.stageFailed = @ \/ failing # "none",
                                    !.wrote = (failing = "none") ]
  /\ UNCHANGED << run, argv, debugFiles, inputOpen, bytesRead, exitCode, history >>

(***************************************************************************)
(* The tool run twice in a row                                             *)
(***************************************************************************)
Next ==
  \/ Invoke
  \/ Main_Arguments
  \/ Main_Open
  \/ Main_Close
  \/ Update_Alloc
  \/ Update_Read
  \/ Update_Scan
  \/ Update_Partition
  \/ Update_Write
  \/ Create_Alloc
  \/ Create_Read
  \/ Create_InnerHeader
  \/ Create_InnerSign
  \/ Create_DebugSig1
  \/ Create_DebugFwAndSig1
  \/ Create_Encrypt
  \/ Create_DebugFWenc
  \/ Create_EncryptionHeader
  \/ Create_WriteIv
  \/ Create_DebugIv
  \/ Create_OuterHeader
  \/ Create_OuterSign
  \/ Create_Write
  \/ Decrypt_Alloc
  \/ Decrypt_Read
  \/ Decrypt_OuterHeader
  \/ Decrypt_VerifyOuter
  \/ Decrypt_EncryptionHeader
  \/ Decrypt_ConvertIv
  \/ Decrypt_AllocDecrypted
  \/ Decrypt_Decrypt
  \/ Decrypt_InnerHeader
  \/ Decrypt_VerifyInner
  \/ Decrypt_Write

Spec == Init /\ [][Next]_vars

(***************************************************************************)
(* The header writers and readers on their own                             *)
(***************************************************************************)
\* number of patterns the 16 bytes hold before a header is written into them
NumPrior == 4

\* the lengths a header is written for: small ones, the ends of each byte of
\* the 32-bit field, and size_t values beyond 32 bits
HeaderSizes ==
  { SizeT(n) : n \in { 0, 1, 255, 256, 1024, 65535, 65536, 16777216, 2147483647 } }
  \cup { << 0, 0, 0, 128, 0, 0, 0, 0 >>,
         << 255, 255, 255, 255, 0, 0, 0, 0 >>,
         << 1, 0, 0, 0, 1, 0, 0, 0 >>,
         << 255, 255, 255, 255, 255, 255, 255, 255 >> }

\* everything but the program counter, the buffer and the locals at rest
NoProcess ==
  /\ run = 0
  /\ files = [ name \in { "input", "output1", "output2" } |-> NoFile ]
  /\ debugFiles = { }
  /\ inputOpen = FALSE
  /\ bytesRead = 0
  /\ outputOpens = 0
  /\ heap = [ mallocs |-> 0, frees |-> 0 ]
  /\ decrpytedData = << >>
  /\ status = 1
  /\ exitCode = -1
  /\ history = << >>

InitHeader ==
  /\ pc = "header_create"
  /\ argv = [ argc |-> 0, device |-> "", operation |-> "", argv5 |-> "" ]
  /\ \E prior \in 0 .. NumPrior - 1, kind \in { "verification", "encryption" },
        imageSize \in HeaderSizes :
       /\ buffer = [ i \in 1 .. M32_FIRMWARE_HEADER_LENGTH |-> FillByte(prior, i + 13) ]
       /\ locals = [ prior |-> prior, kind |-> kind, imageSize |-> imageSize,
                     decoded |-> [ status |-> 1, dataLength |-> SizeT(0) ],
                     damaged |-> -1 ]
  /\ NoProcess

\* CreateSha512VerificatioinHeader(buffer, imageSize) or
\* CreateAes128CbcEncryptionHeader(buffer, imageSize)
Header_Create ==
  /\ pc = "header_create"
  /\ buffer' = IF locals.kind = "verification"
                 THEN CreateSha512VerificatioinHeader(buffer, 0, locals.imageSize)
                 ELSE CreateAes128CbcEncryptionHeader(buffer, 0, locals.imageSize)
  /\ pc' = "header_decode"
  /\ UNCHANGED << run, argv, files, debugFiles, inputOpen, bytesRead, outputOpens,
                  heap, decrpytedData, locals, status, exitCode, history >>

\* GetDataLengthFromVerificationHeader(buffer, &dataLength) or
\* GetDataLengthFromEncryptionHeader(buffer, &dataLength)
Header_Decode ==
  /\ pc = "header_decode"
  /\ \E extension \in IntExtensions :
       locals' = [ locals EXCEPT !.decoded =
                     IF locals.kind = "verification"
                       THEN GetDataLengthFromVerificationHeader(buffer, 0, SizeT(0),
                                                                extension)
                       ELSE GetDataLengthFromEncryptionHeader(buffer, 0, SizeT(0),
                                                              extension) ]
  /\ pc' = "header_done"
  /\ UNCHANGED << run, argv, files, debugFiles, inputOpen, bytesRead, outputOpens,
                  heap, buffer, decrpytedData, status, exitCode, history >>

\* the header reaches the reader with one of its 16 bytes changed
Header_Damage ==
  /\ pc = "header_done"
  /\ \E position \in 0 .. M32_FIRMWARE_HEADER_LENGTH - 1 :
       /\ buffer' = Poke(buffer, position, << (At(buffer, position) + 1) % 256 >>)
       /\ locals' = [ locals EXCEPT !.damaged = position ]
  /\ pc' = "header_damaged"
  /\ UNCHANGED << run, argv, files, debugFiles, inputOpen, bytesRead, outputOpens,
                  heap, decrpytedData, status, exitCode, history >>

\* GetDataLengthFrom...Header on the changed header; dataLength keeps what
\* the first call stored when the magic does not match
Header_DecodeDamaged ==
  /\ pc = "header_damaged"
  /\ \E extension \in IntExtensions :
       locals' = [ locals EXCEPT !.decoded =
                     IF locals.kind = "verification"
                       THEN GetDataLengthFromVerificationHeader(
                              buffer, 0, locals.decoded.dataLength, extension)
                       ELSE GetDataLengthFromEncryptionHeader(
                              buffer, 0, locals.decoded.dataLength, extension) ]
  /\ pc' = "header_redone"
  /\ UNCHANGED << run, argv, files, debugFiles, inputOpen, bytesRead, outputOpens,
                  heap, buffer, decrpytedData, status, exitCode, history >>

NextHeader ==
  \/ Header_Create
  \/ Header_Decode
  \/ Header_Damage
  \/ Header_DecodeDamaged

SpecHeader == InitHeader /\ [][NextHeader]_vars

(***************************************************************************)
(* Signing and verifying on their own                                      *)
(***************************************************************************)
\* longest message signed
MaxMessage == 2

\* the messages: every string of 1 .. MaxMessage bytes over { 0, 255 }
Messages ==
  UNION { [ 1 .. n -> { 0, 255 } ] : n \in 1 .. MaxMessage }

\* the offsets at which a bit is flipped: every byte of the message, and the
\* first, second, 64th, 65th and last byte of the signature behind it
TamperOffsets(imageSize) ==
  (0 .. imageSize - 1)
  \cup { imageSize + k : k \in { 0, 1, 63, 64, M32_FIRMWARE_SIGNATURE_LENGTH - 1 } }

\* value with bit number bit flipped
FlipBit(value, bit) ==
  LET weight == 2 ^ bit
  IN  IF (value \div weight) % 2 = 1 THEN value - weight ELSE value + weight

InitSig ==
  /\ pc = "sig_sign"
  /\ \E device \in DeviceNames :
       argv = [ argc |-> 0, device |-> device, operation |-> "", argv5 |-> "" ]
  /\ \E message \in Messages, garbage \in GarbageBytes :
       /\ buffer = message \o [ i \in 1 .. M32_FIRMWARE_SIGNATURE_LENGTH |-> garbage ]
       /\ locals = [ imageSize |-> Len(message), signStatus |-> 1, returned |-> 1,
                     tampered |-> FALSE, valid |-> FALSE, allSucceeded |-> FALSE,
                     nominal |-> FALSE ]
  /\ NoProcess

\* a call of CreateSha512VerificatioinSignature(buffer, imageSize, device):
\* signStatus is its local "status", returned the value its caller gets
Sig_Sign ==
  /\ pc = "sig_sign"
  /\ \E failingStep \in SignSteps :
       LET signed == CreateSha512VerificatioinSignature(buffer, 0, locals.imageSize,
                                                        Device, failingStep)
       IN  \E returned \in SignReturnValues(signed.status) :
             /\ buffer' = signed.mem
             /\ locals' = [ locals EXCEPT !.signStatus = signed.status,
                                          !.returned = returned ]
  /\ pc' = "sig_signed"
  /\ UNCHANGED << run, argv, files, debugFiles, inputOpen, bytesRead, outputOpens,
                  heap, decrpytedData, status, exitCode, history >>

\* one bit of the signed bytes or of the signature changes
Sig_Tamper ==
  /\ pc = "sig_signed"
  /\ locals.signStatus = 0
  /\ locals.returned = 0
  /\ \E off \in TamperOffsets(locals.imageSize), bit \in 0 .. 7 :
       buffer' = [ buffer EXCEPT ![off + 1] = FlipBit(@, bit) ]
  /\ locals' = [ locals EXCEPT !.tampered = TRUE ]
  /\ pc' = "sig_tampered"
  /\ UNCHANGED << run, argv, files, debugFiles, inputOpen, bytesRead, outputOpens,
                  heap, decrpytedData, status, exitCode, history >>

\* a call of VerifySha512Signture(buffer, imageSize, device): status is what
\* it returns; valid, allSucceeded and nominal record what the library did
Sig_Verify ==
  /\ \/ pc = "sig_signed" /\ locals.signStatus = 0 /\ locals.returned = 0
     \/ pc = "sig_tampered"
  /\ \E valid \in { SignatureValid(buffer, 0, locals.imageSize, Device, 0) } :
         \E l \in VerifyOutcomes(valid) :
           /\ status' = VerifyStatus(l)
           /\ locals' = [ locals EXCEPT
                            !.valid = valid,
                            !.allSucceeded = (l.early /\ l.init = 1 /\ l.update = 1
                                               /\ l.final = 1),
                            !.nominal = NominalVerify(l) ]
  /\ pc' = "sig_verified"
  /\ UNCHANGED << run, argv, files, debugFiles, inputOpen, bytesRead, outputOpens,
                  heap, buffer, decrpytedData, exitCode, history >>

NextSig ==
  \/ Sig_Sign
  \/ Sig_Tamper
  \/ Sig_Verify

SpecSig == InitSig /\ [][NextSig]_vars

(***************************************************************************)
(* Caclulate16BitSum on its own                                            *)
(***************************************************************************)
\* most words summed
MaxWords == 3

\* the bytes the summed buffers are made of
SumBytes == { 0, 1, 128, 255 }

\* a buffer of an even number of bytes, to be summed as it is or inverted
InitSum ==
  /\ pc = "sum_loop"
  /\ argv = [ argc |-> 0, device |-> "", operation |-> "", argv5 |-> "" ]
  /\ \E words \in 0 .. MaxWords :
       buffer \in [ 1 .. 2 * words -> SumBytes ]
  /\ \E inverted \in BOOLEAN :
       locals = [ i |-> 0, checksumNew |-> 0, inverted |-> inverted, carries |-> 0 ]
  /\ NoProcess

\* one pass of "for (int i = 0; i < bufferLength; i += 2)"
Sum_Word ==
  /\ pc = "sum_loop"
  /\ locals.i < Len(buffer)
  /\ LET currentValue == At(buffer, locals.i) + 256 * At(buffer, locals.i + 1)
         added == AddWord(locals.checksumNew, currentValue)
     IN  locals' = [ locals EXCEPT
                       !.i = @ + 2,
                       !.checksumNew = added,
                       !.carries = @ + (IF added < currentValue + locals.checksumNew
                                          THEN 1 ELSE 0) ]
  /\ UNCHANGED << pc, run, argv, files, debugFiles, inputOpen, bytesRead, outputOpens,
                  heap, buffer, decrpytedData, status, exitCode, history >>

\* the end of the loop: "if (inverted == true) checksumNew = 0xFFFFu - checksumNew"
Sum_Invert ==
  /\ pc = "sum_loop"
  /\ locals.i >= Len(buffer)
  /\ locals' = [ locals EXCEPT !.checksumNew =
                   IF locals.inverted THEN (65535 - @) % 65536 ELSE @ ]
  /\ pc' = "sum_done"
  /\ UNCHANGED << run, argv, files, debugFiles, inputOpen, bytesRead, outputOpens,
                  heap, buffer, decrpytedData, status, exitCode, history >>

NextSum ==
  \/ Sum_Word
  \/ Sum_Invert

SpecSum == InitSum /\ [][NextSum]_vars

(***************************************************************************)
(* Properties                                                              *)
(***************************************************************************)
\* the file the r-th invocation read and the file it was told to write
InputOf(r) ==
  IF r = 1 \/ history[r].argv.operation = "--CreateFactoryImage"
    THEN "input" ELSE "output1"
OutputOf(r) == IF r = 1 THEN "output1" ELSE "output2"

\* the r-th invocation ran the operation op on a file that was there
Ran(r, op) ==
  /\ r <= Len(history)
  /\ history[r].argv.operation = op
  /\ history[r].argv.argc \in { 5, 7 }
  /\ history[r].argv.device \in DeviceNames
  /\ files[InputOf(r)].exists

\* the first invocation built a factory image and the second one decrypted it
BuiltThenDecrypted ==
  /\ Len(history) = 2
  /\ Ran(1, "--CreateFactoryImage")
  /\ history[1].exitCode = 0
  /\ Ran(2, "--DecryptFactoryImage")

\* C1: round trip.  For every device and every recovery image of at least
\* 1024 bytes, building a factory image succeeds (when no call into the
\* operating system or the library fails), and decrypting it with the same
\* device succeeds and writes exactly the bytes of the recovery image.
C1_RoundTrip ==
  /\ \A r \in 1 .. Len(history) :
       ( /\ Ran(r, "--CreateFactoryImage")
         /\ Len(files[InputOf(r)].data) >= 1024
         /\ ~history[r].fault )
       => history[r].exitCode = 0
  /\ ( /\ BuiltThenDecrypted
       /\ history[2].argv.device = history[1].argv.device
       /\ ~history[2].fault )
     => ( /\ history[2].exitCode = 0
          /\ files["output2"].exists
          /\ files["output2"].data = files["input"].data )

\* a build and a decryption with the same device that gave the image back
C1_RoundTripDone ==
  /\ BuiltThenDecrypted
  /\ history[2].argv.device = history[1].argv.device
  /\ history[2].exitCode = 0
  /\ Len(files["input"].data) = 1025
  /\ files["output2"].data = files["input"].data

\* C2 as stated: device-key isolation.  For every pair of distinct device
\* names A and B, a factory image built for A makes the decryption with B
\* fail: non-zero exit code and no output written.
C2_DeviceKeyIsolation ==
  ( /\ BuiltThenDecrypted
    /\ history[2].argv.device # history[1].argv.device )
  => ( /\ history[2].exitCode # 0
       /\ history[2].outputOpens = 0
       /\ ~files["output2"].exists )

\* C2: device-key isolation for the devices that do not share their keys.
\* For every pair of distinct device names A and B other than the pair M32
\* and R32, a factory image built for A makes the decryption with B fail:
\* non-zero exit code and no output written.
C2_DeviceKeyIsolationDistinctKeys ==
  ( /\ BuiltThenDecrypted
    /\ history[2].argv.device # history[1].argv.device
    /\ { history[1].argv.device, history[2].argv.device } # { "M32", "R32" } )
  => ( /\ history[2].exitCode # 0
       /\ history[2].outputOpens = 0
       /\ ~files["output2"].exists )

\* an image built for M30 was refused by the decryption for M60
C2_OtherDeviceRefused ==
  /\ BuiltThenDecrypted
  /\ history[1].argv.device = "M30"
  /\ history[2].argv.device = "M60"
  /\ history[2].exitCode = 1
  /\ history[2].bytesRead = Len(files["output1"].data)

\* C3: tamper detection.  After a signature was produced for a buffer, a
\* change of any single bit of the buffer or of the signature makes
\* VerifySha512Signture return non-zero.
C3_TamperDetection ==
  (pc = "sig_verified" /\ locals.tampered) => status # 0

\* a tampered buffer went through the verification
C3_TamperedVerified ==
  pc = "sig_verified" /\ locals.tampered /\ ~locals.valid /\ status = 1

\* C4: VerifySha512Signture fails closed.  It returns 0 only when every step
\* succeeded and the final step reported the signature valid; any other
\* result of a step, negative error codes included, gives non-zero.
C4_VerifyFailsClosed ==
  (pc = "sig_verified" /\ status = 0) => (locals.allSucceeded /\ locals.valid)

\* C5: CreateSha512VerificatioinSignature reports its outcome.  Its caller
\* gets 0 exactly when all steps succeeded and non-zero when a step failed.
C5_SignReportsOutcome ==
  pc = "sig_signed" => (locals.returned = 0 <=> locals.signStatus = 0)

\* the 16-bit sums over the 80 header bytes of the partitions the r-th
\* invocation recorded, taken in the file it wrote
HeaderSums(r) ==
  LET input == files[InputOf(r)].data
      found == FindHeaders(input, Len(input) - M32_FIRMWARE_UTIL_FW_HEADER_LENGTH,
                           DeviceByName(history[r].argv.device).RecoveryHeaderStart)
  IN  { Sum16(files[OutputOf(r)].data, found[k],
              M32_FIRMWARE_UTIL_FW_HEADER_LENGTH, FALSE, 0) : k \in 1 .. Len(found) }

\* C6: header checksum invariant.  After UpdateHeaderInRecoveryImage
\* succeeded, for every partition header it recorded the 16-bit sum with
\* end-around carry over all 80 header bytes is 0xFFFF.
C6_HeaderChecksum ==
  pc = "shell" =>
    \A r \in 1 .. Len(history) :
      (Ran(r, "--UpdateFirmwareHeader") /\ history[r].exitCode = 0)
      => HeaderSums(r) = { 65535 }

\* an image with two partitions was repaired
C6_TwoPartitionsRepaired ==
  /\ pc = "shell"
  /\ Len(history) = 1
  /\ Ran(1, "--UpdateFirmwareHeader")
  /\ history[1].exitCode = 0
  /\ Len(files["input"].data) = 200
  /\ files["output1"].data # files["input"].data

\* C7: idempotence of repair.  When UpdateHeaderInRecoveryImage succeeded on
\* an image, running it again on its output with the same device succeeds
\* and writes a byte-identical image.
C7_RepairIdempotent ==
  ( /\ Len(history) = 2
    /\ Ran(1, "--UpdateFirmwareHeader")
    /\ history[1].exitCode = 0
    /\ Ran(2, "--UpdateFirmwareHeader")
    /\ history[2].argv.device = history[1].argv.device
    /\ ~history[2].fault )
  => ( /\ history[2].exitCode = 0
       /\ files["output2"].data = files["output1"].data )

\* a second repair that succeeded and changed nothing
C7_SecondRepairSame ==
  /\ Len(history) = 2
  /\ Ran(1, "--UpdateFirmwareHeader")
  /\ Ran(2, "--UpdateFirmwareHeader")
  /\ history[2].exitCode = 0
  /\ files["output2"].data = files["output1"].data

\* hdr[1] + ... + hdr[n] and hdr[1] xor ... xor hdr[n]
RECURSIVE ByteSum(_, _)
ByteSum(hdr, n) == IF n = 0 THEN 0 ELSE hdr[n] + ByteSum(hdr, n - 1)

RECURSIVE ByteXor(_, _)
ByteXor(hdr, n) == IF n = 0 THEN 0 ELSE BitXor(hdr[n], ByteXor(hdr, n - 1))

\* C8: byte-sum/XOR invariant.  For every length, in the 16-byte header that
\* CreateSha512VerificatioinHeader or CreateAes128CbcEncryptionHeader wrote,
\* byte 14 is the sum modulo 256 of bytes 0-13 and byte 15 is their XOR,
\* whatever the 16 bytes held before.
C8_ByteSumXor ==
  pc \in { "header_decode", "header_done" } =>
    /\ buffer[15] = ByteSum(buffer, 14) % 256
    /\ buffer[16] = ByteXor(buffer, 14)
    /\ \A i \in 1 .. 14 : buffer[i] \in Byte

\* a header was written over bytes that were not zero, for a length of
\* more than 32 bits
C8_HeaderOverPrior ==
  /\ pc = "header_decode"
  /\ locals.prior = 1
  /\ locals.imageSize = << 1, 0, 0, 0, 1, 0, 0, 0 >>
  /\ buffer[15] # FillByte(1, 28)

\* the minimum sizes as the size gating states them
StatedMinimum(operation) ==
  CASE operation = "--UpdateFirmwareHeader" -> 80
    [] operation = "--CreateFactoryImage" -> 1024
    [] operation = "--DecryptFactoryImage" -> 1568

\* C9: size gating.  An input file smaller than the operation's minimum size
\* (80, 1024, 1568) is rejected with exit code 1 before the operation is
\* called: no buffer is allocated, no byte is read, no output is written.
C9_SizeGating ==
  /\ pc \notin { "shell", "main", "main_open", "main_close" }
       => Len(files[InputFileArg].data) >= StatedMinimum(argv.operation)
  /\ \A r \in 1 .. Len(history), operation \in OperationNames :
       ( /\ Ran(r, operation)
         /\ Len(files[InputOf(r)].data) < StatedMinimum(operation) )
       => ( /\ history[r].exitCode = 1
            /\ history[r].mallocs = 0
            /\ history[r].bytesRead = 0
            /\ history[r].outputOpens = 0
            /\ ~files[OutputOf(r)].exists )

\* a 1023-byte file was refused by --CreateFactoryImage and a 1567-byte file
\* by --DecryptFactoryImage
C9_TooSmallRefused ==
  /\ Len(history) = 1
  /\ files["input"].exists
  /\ history[1].exitCode = 1
  /\ ~history[1].fault
  /\ history[1].argv.device = "M32"
  /\ history[1].argv.argc = 5
  /\ \/ /\ history[1].argv.operation = "--CreateFactoryImage"
        /\ Len(files["input"].data) = 1023
     \/ /\ history[1].argv.operation = "--DecryptFactoryImage"
        /\ Len(files["input"].data) = 1567

\* C10: exit code.  An invocation ends with 0 exactly when the operation ran
\* every stage successfully and wrote the output file; every failure ends
\* with 1.
C10_ExitCode ==
  \A r \in 1 .. Len(history) :
    /\ history[r].exitCode = 0 <=> (~history[r].stageFailed /\ history[r].wrote)
    /\ history[r].exitCode \in { 0, 1 }

\* an invocation ended with 0 after it wrote its output
C10_SuccessExit ==
  /\ Len(history) = 1
  /\ history[1].exitCode = 0
  /\ history[1].wrote
  /\ ~history[1].stageFailed
  /\ files["output1"].exists

\* C11: the primary output is written at most once per invocation, as the
\* last stage and only after every earlier stage succeeded.  The output file
\* is opened at most once; once a stage has failed no later stage runs (the
\* operation is on its way back to main); an invocation in which a stage
\* failed has left no output file.
C11_OutputOnlyOnSuccess ==
  /\ outputOpens <= 1
  /\ locals.stageFailed => pc = "main_close"
  /\ \A r \in 1 .. Len(history) :
       /\ history[r].outputOpens <= 1
       /\ history[r].stageFailed => ~files[OutputOf(r)].exists

\* a decryption that failed at a stage before the write and left no output
C11_FailedBeforeWrite ==
  /\ Len(history) = 1
  /\ Ran(1, "--DecryptFactoryImage")
  /\ history[1].stageFailed
  /\ ~history[1].fault
  /\ history[1].mallocs = 1
  /\ history[1].exitCode = 1
  /\ history[1].outputOpens = 0
  /\ ~files["output1"].exists

\* the command line passes main's argument checks
ValidArguments(line) ==
  /\ line.argc \in { 5, 7 }
  /\ line.device \in DeviceNames
  /\ line.operation \in OperationNames

\* C12: argument errors touch no file.  When the device or the operation is
\* in no table or the argument count is neither 5 nor 7, the invocation ends
\* with 1; the input file is never opened (main does not get past its
\* argument checks), nothing is read or allocated, and no output or debug
\* file is created.
C12_ArgumentErrorsTouchNoFile ==
  /\ (inputOpen \/ pc \notin { "shell", "main" }) => ValidArguments(argv)
  /\ \A r \in 1 .. Len(history) :
       ~ValidArguments(history[r].argv)
       => ( /\ history[r].exitCode = 1
            /\ history[r].bytesRead = 0
            /\ history[r].mallocs = 0
            /\ history[r].outputOpens = 0
            /\ ~files[OutputOf(r)].exists
            /\ r = 1 => debugFiles = { } )

\* an invocation for a device that is in no table ended with 1, the input
\* file being there
C12_UnknownDeviceRefused ==
  /\ Len(history) = 1
  /\ history[1].argv.device = "M99"
  /\ history[1].argv.argc = 5
  /\ history[1].exitCode = 1
  /\ files["input"].exists
  /\ ~files["output1"].exists

\* the offsets at which the device's magic string stands in the file the r-th
\* invocation read, wherever the whole string fits
MagicOccurrences(r) ==
  LET input == files[InputOf(r)].data
      magic == DeviceByName(history[r].argv.device).RecoveryHeaderStart
  IN  HeaderMatches(input, Len(input) - Len(magic) + 1, magic)

\* C13: UpdateHeaderInRecoveryImage fails with a format error (status 1, no
\* output) exactly when the image holds no occurrence of the device's magic
\* string; an image of at least 80 bytes with an occurrence, such as an
\* 80-byte image that is one header, is repaired and written.
C13_FormatErrorIffNoMagic ==
  \A r \in 1 .. Len(history) :
    ( /\ Ran(r, "--UpdateFirmwareHeader")
      /\ Len(files[InputOf(r)].data) >= M32_FIRMWARE_UTIL_FW_HEADER_LENGTH
      /\ ~history[r].fault )
    => IF MagicOccurrences(r) = { }
         THEN history[r].exitCode = 1 /\ ~files[OutputOf(r)].exists
         ELSE /\ history[r].exitCode = 0
              /\ files[OutputOf(r)].exists
              /\ Len(files[OutputOf(r)].data) = Len(files[InputOf(r)].data)

\* an image without the magic string was refused
C13_NoMagicRefused ==
  /\ Len(history) = 1
  /\ Ran(1, "--UpdateFirmwareHeader")
  /\ Len(files["input"].data) = 100
  /\ MagicOccurrences(1) = { }
  /\ history[1].mallocs = 1
  /\ history[1].exitCode = 1
  /\ ~files["output1"].exists

\* the matches the search loop of the running invocation can come across
ScannedMatches ==
  HeaderMatches(files[InputFileArg].data,
                Len(files[InputFileArg].data) - M32_FIRMWARE_UTIL_FW_HEADER_LENGTH,
                Device.RecoveryHeaderStart)

\* C14: partition cap.  UpdateHeaderInRecoveryImage records at most 16
\* offsets, strictly ascending: the first 16 the scan comes across; the
\* partition loop indexes headerAddresses within 0..15 only; and with more
\* than 16 occurrences the 16th partition's span runs to the end of the
\* buffer (its length field is the image length minus its offset minus 80).
C14_PartitionCap ==
  /\ pc \in { "update_partition", "update_write" } =>
       LET h == locals.headerAddresses
       IN  /\ Len(h) <= 16
           /\ locals.partitionCount = Len(h)
           /\ \A i, j \in 1 .. Len(h) : i < j => h[i] < h[j]
           /\ { h[i] : i \in 1 .. Len(h) }
                = { a \in ScannedMatches :
                      Cardinality({ b \in ScannedMatches : b < a }) < 16 }
           /\ pc = "update_partition" =>
                (locals.partition \in 0 .. 15 /\ locals.partition < Len(h))
  /\ \A r \in 1 .. Len(history) :
       ( /\ Ran(r, "--UpdateFirmwareHeader")
         /\ history[r].exitCode = 0
         /\ Cardinality(MagicOccurrences(r)) > 16 )
       => LET input == files[InputOf(r)].data
              found == FindHeaders(input, Len(input) - M32_FIRMWARE_UTIL_FW_HEADER_LENGTH,
                                   DeviceByName(history[r].argv.device).RecoveryHeaderStart)
          IN  Slice(files[OutputOf(r)].data,
                    found[16] + M32_FIRMWARE_UTIL_FW_DATA_LENGTH_OFFSET, 4)
                = LowWord(SizeT(Len(input) - found[16]
                                  - M32_FIRMWARE_UTIL_FW_HEADER_LENGTH))

\* an image with 17 headers was repaired: the 17th header is as it was
C14_SeventeenthLeftAlone ==
  /\ pc = "shell"
  /\ Len(history) = 1
  /\ Ran(1, "--UpdateFirmwareHeader")
  /\ history[1].exitCode = 0
  /\ Cardinality(MagicOccurrences(1)) = 17
  /\ Slice(files["output1"].data, 1280, 80) = Slice(files["input"].data, 1280, 80)
  /\ Slice(files["output1"].data, 1200, 80) # Slice(files["input"].data, 1200, 80)

\* the partitions the r-th invocation recorded
RecordedPartitions(r) ==
  LET input == files[InputOf(r)].data
  IN  FindHeaders(input, Len(input) - M32_FIRMWARE_UTIL_FW_HEADER_LENGTH,
                  DeviceByName(history[r].argv.device).RecoveryHeaderStart)

\* where the span of the k-th recorded partition ends: the next recorded
\* offset, or the image length for the last one
SpanEnd(r, k) ==
  IF k < Len(RecordedPartitions(r))
    THEN RecordedPartitions(r)[k + 1]
    ELSE Len(files[InputOf(r)].data)

\* C15: payload length field.  After UpdateHeaderInRecoveryImage succeeded,
\* for every recorded partition the 4-byte little-endian field at header
\* offset 0x2C is (next recorded offset, or image length for the last
\* partition) minus the partition's offset minus 80.
C15_PayloadLengthField ==
  pc = "shell" =>
    \A r \in 1 .. Len(history) :
      (Ran(r, "--UpdateFirmwareHeader") /\ history[r].exitCode = 0)
      => \A k \in 1 .. Len(RecordedPartitions(r)) :
           Slice(files[OutputOf(r)].data,
                 RecordedPartitions(r)[k] + M32_FIRMWARE_UTIL_FW_DATA_LENGTH_OFFSET, 4)
             = SubSeq(SizeT(SpanEnd(r, k) - RecordedPartitions(r)[k] - 80), 1, 4)

\* a header followed by a 100-byte payload got the length field 100, which
\* it did not hold before
C15_LengthHundred ==
  /\ pc = "shell"
  /\ Len(history) = 1
  /\ Ran(1, "--UpdateFirmwareHeader")
  /\ history[1].exitCode = 0
  /\ Len(files["input"].data) = 180
  /\ Slice(files["output1"].data, 44, 4) = << 100, 0, 0, 0 >>
  /\ Slice(files["input"].data, 44, 4) # << 100, 0, 0, 0 >>

\* the payload of the k-th partition the r-th invocation recorded, in the file
\* it wrote
PayloadOf(r, k) ==
  Slice(files[OutputOf(r)].data,
        RecordedPartitions(r)[k] + M32_FIRMWARE_UTIL_FW_HEADER_LENGTH,
        SpanEnd(r, k) - RecordedPartitions(r)[k] - M32_FIRMWARE_UTIL_FW_HEADER_LENGTH)

\* the 16-bit little-endian field at offset off of the file the r-th
\* invocation wrote
WordAt(r, off) ==
  At(files[OutputOf(r)].data, off) + 256 * At(files[OutputOf(r)].data, off + 1)

\* C16: data checksum field.  After UpdateHeaderInRecoveryImage succeeded,
\* for every recorded partition the field at header offset 0x0E is the
\* non-inverted end-around-carry sum of exactly the partition's payload bytes
\* (no byte outside the payload enters it), and the header checksum at 0x4E
\* is the inverted sum of the header bytes 0..77 with that field in place.
C16_DataChecksumField ==
  pc = "shell" =>
    \A r \in 1 .. Len(history) :
      (Ran(r, "--UpdateFirmwareHeader") /\ history[r].exitCode = 0)
      => \A k \in 1 .. Len(RecordedPartitions(r)) :
           /\ WordAt(r, RecordedPartitions(r)[k] + CHECKUM_PATCHER_DATA_CHECKSUM_OFFSET)
                = Sum16(PayloadOf(r, k), 0, Len(PayloadOf(r, k)), FALSE, 0)
           /\ WordAt(r, RecordedPartitions(r)[k] + CHECKUM_PATCHER_HEADER_CHECKSUM_OFFSET)
                = Sum16(files[OutputOf(r)].data, RecordedPartitions(r)[k],
                        CHECKUM_PATCHER_HEADER_CHECKSUM_OFFSET, TRUE, 0)

\* a partition with a payload of 10 bytes that are not zero got their sum as
\* data checksum
C16_EvenPayloadSummed ==
  /\ pc = "shell"
  /\ Len(history) = 1
  /\ Ran(1, "--UpdateFirmwareHeader")
  /\ history[1].exitCode = 0
  /\ Len(files["input"].data) = 200
  /\ Len(RecordedPartitions(1)) = 2
  /\ WordAt(1, CHECKUM_PATCHER_DATA_CHECKSUM_OFFSET)
       = Sum16(files["input"].data, 80, 10, FALSE, 0)
  /\ WordAt(1, CHECKUM_PATCHER_DATA_CHECKSUM_OFFSET) # 0

\* the ciphertext length stated for a recovery image of n bytes
StatedCipherLength(n) == 16 * (((n + 272) \div 16) + 1)

\* the four bytes of the length n, least significant first
LittleEndian(n) == SubSeq(SizeT(n), 1, 4)

\* C17: factory image layout.  For a recovery image of n bytes and
\* c = 16 * (floor((n + 272) / 16) + 1), the file CreateFactoryImage wrote is
\* c + 337 bytes: outer verification header with length c + 65, encryption
\* header with length c + 16, the IV as 32 lowercase hex characters and 0x0A,
\* "Salted__" and the salt, c bytes of ciphertext, and a signature over the
\* c + 65 bytes that follow the outer header; the inner verification header
\* is written with length n.
C17_FactoryImageLayout ==
  /\ pc \in { "create_inner_sign", "create_debug_sig1", "create_debug_fw",
              "create_encrypt" }
       => ( /\ HasHeaderStart(buffer, recoveryImageWithHeader)
            /\ Slice(buffer, recoveryImageWithHeader + 4, 4) = LittleEndian(locals.st_size) )
  /\ pc = "shell" =>
       \A r \in 1 .. Len(history) :
         ( /\ Ran(r, "--CreateFactoryImage")
           /\ history[r].exitCode = 0
           /\ ~history[r].fault )
         => LET out == files[OutputOf(r)].data
                c == StatedCipherLength(Len(files[InputOf(r)].data))
            IN  /\ Len(out) = c + 337
                /\ Slice(out, 0, 4) = << 77, 72, 48, 49 >>
                /\ Slice(out, 4, 4) = LittleEndian(c + 65)
                /\ Slice(out, 16, 4) = << 77, 72, 48, 49 >>
                /\ Slice(out, 24, 4) = LittleEndian(c + 16)
                /\ \A i \in 0 .. 15 :
                     /\ At(out, 32 + 2 * i) \in (48 .. 57) \cup (97 .. 102)
                     /\ At(out, 33 + 2 * i) \in (48 .. 57) \cup (97 .. 102)
                     /\ 16 * HexValue(At(out, 32 + 2 * i)) + HexValue(At(out, 33 + 2 * i))
                          = IV[i + 1]
                /\ At(out, 64) = 10
                /\ Slice(out, 65, 8) = << 83, 97, 108, 116, 101, 100, 95, 95 >>
                /\ Slice(out, 73, 8) = EncryptionSalt
                /\ SignatureValid(out, 16, c + 65,
                                  DeviceByName(history[r].argv.device), 0)

\* a factory image was built from 1025 bytes: 1312 bytes of ciphertext
C17_FactoryImageBuilt ==
  /\ pc = "shell"
  /\ Len(history) = 1
  /\ Ran(1, "--CreateFactoryImage")
  /\ history[1].exitCode = 0
  /\ ~history[1].fault
  /\ Len(files["input"].data) = 1025
  /\ Len(files["output1"].data) = 1312 + 337

\* the inner-signature stage stored a signature behind the recovery image
InnerSignatureAppended ==
  /\ pc = "create_inner_sign"
  /\ pc' = "create_debug_sig1"
  /\ Slice(buffer', recoveryImage + locals.st_size, M32_FIRMWARE_SIGNATURE_LENGTH)
       # Slice(buffer, recoveryImage + locals.st_size, M32_FIRMWARE_SIGNATURE_LENGTH)

\* C18 as stated: the 256-byte inner signature CreateFactoryImageFromRecoveryImage
\* appends is the device's signature of the inner header followed by the
\* recovery image (n + 16 bytes).
C18_InnerSignatureOverFramedBuffer ==
  [][ InnerSignatureAppended
        => SignatureValid(buffer', recoveryImageWithHeader,
                          locals.st_size + M32_FIRMWARE_HEADER_LENGTH, Device, 0) ]_vars

\* C18, amended: the 256-byte inner signature CreateFactoryImageFromRecoveryImage
\* appends is the device's signature of the recovery image alone (n bytes);
\* the inner header in front of it is not covered, and nothing but the 256
\* bytes behind the image is stored.
C18_InnerSignatureOverImage ==
  [][ InnerSignatureAppended
        => /\ SignatureValid(buffer', recoveryImage, locals.st_size, Device, 0)
           /\ SubSeq(buffer', 1, recoveryImage + locals.st_size)
                = SubSeq(buffer, 1, recoveryImage + locals.st_size) ]_vars

\* the inner signature of a 1025-byte image is in place
C18_InnerSignatureStored ==
  /\ pc = "create_debug_sig1"
  /\ locals.st_size = 1025
  /\ ~locals.fault
  /\ SignatureValid(buffer, recoveryImage, 1025, Device, 0)
  /\ ~SignatureValid(buffer, recoveryImageWithHeader, 1025 + 16, Device, 0)

\* the block and offset a verification stage of DecryptFactoryImage hands to
\* VerifySha512Signture
VerifiedBlock ==
  IF pc = "decrypt_verify_outer"
    THEN [ mem |-> buffer, off |-> locals.currentBlockOffset ]
    ELSE [ mem |-> decrpytedData, off |-> M32_FIRMWARE_HEADER_LENGTH ]

\* whether the bytes the stage reads can carry a valid signature: the declared
\* span and the 256 bytes behind it, bytes behind the block being anything
SpanVerifies ==
  /\ IsSmall(locals.currentBlockLength)
  /\ \E oob \in GarbageBytes :
       SignatureValid(VerifiedBlock.mem, VerifiedBlock.off,
                      ToInt(locals.currentBlockLength), Device, oob)

\* C19: verification gates in split.  DecryptFactoryImage goes on to the
\* encryption header and the decryption only when the outer signature over
\* the span the outer header declares verifies, and goes on to write the
\* output only when the inner signature over the payload behind the inner
\* header verifies; when a signature does not verify the operation returns
\* status 1 and leaves the files as they are.
C19_VerificationGates ==
  [][ /\ ( pc = "decrypt_verify_outer" /\ pc' = "decrypt_encryption_header" )
           => SpanVerifies
      /\ ( pc = "decrypt_verify_inner" /\ pc' = "decrypt_write" )
           => SpanVerifies
      /\ ( pc \in { "decrypt_verify_outer", "decrypt_verify_inner" } /\ ~SpanVerifies )
           => ( pc' = "main_close" /\ status' = 1 /\ files' = files ) ]_vars

\* both gates were passed by signatures that verify, the output is due
C19_BothGatesPassed ==
  /\ pc = "decrypt_write"
  /\ ~locals.fault
  /\ SignatureValid(decrpytedData, M32_FIRMWARE_HEADER_LENGTH,
                    ToInt(locals.currentBlockLength), Device, 0)
  /\ HasHeaderStart(buffer, 0)
  /\ SignatureValid(buffer, M32_FIRMWARE_HEADER_LENGTH,
                    ToInt(GetDataLengthFromVerificationHeader(buffer, 0, SizeT(0), "zero").dataLength),
                    Device, 0)

\* where each kind of header keeps its length
LengthOffset(kind) == IF kind = "verification" THEN 4 ELSE 8

\* the four bytes at off read as an unsigned 32-bit number, as a size_t
Unsigned32(mem, off) == Slice(mem, off, 4) \o << 0, 0, 0, 0 >>

\* C20: length field decode.  GetDataLengthFromVerificationHeader and
\* GetDataLengthFromEncryptionHeader fail exactly when the first four bytes
\* are not "MH01", whatever bytes 12-15 hold, and otherwise return the
\* unsigned 32-bit little-endian value at offset 4 / offset 8; so for every
\* length L below 2^32, the top byte 0x80 and above included, decoding the
\* header the matching writer made for L returns L.
C20_LengthDecode ==
  /\ ( pc = "header_done" /\ \A i \in 5 .. 8 : locals.imageSize[i] = 0 )
       => ( /\ locals.decoded.status = 0
            /\ locals.decoded.dataLength = locals.imageSize )
  /\ pc = "header_redone"
       => ( /\ locals.decoded.status \in { 0, 1 }
            /\ locals.decoded.status = 1 <=> locals.damaged \in 0 .. 3
            /\ locals.decoded.status = 1 <=> ~HasHeaderStart(buffer, 0)
            /\ locals.decoded.status = 0
                 => locals.decoded.dataLength
                      = Unsigned32(buffer, LengthOffset(locals.kind)) )

\* a length of 1024 came back from the header written for it
C20_SmallLengthDecoded ==
  /\ pc = "header_done"
  /\ locals.imageSize = SizeT(1024)
  /\ locals.decoded = [ status |-> 0, dataLength |-> SizeT(1024) ]

\* the 16 bytes the 32 hex characters at off of mem spell
ParsedIv(mem, off) ==
  [ i \in 1 .. AES_BLOCK_SIZE |->
      16 * HexValue(At(mem, off + 2 * (i - 1))) + HexValue(At(mem, off + 2 * (i - 1) + 1)) ]

\* C21: explicit IV only.  What EncryptAes128Cbc stores decrypts, under the
\* first 16 bytes derived from the firmware key and the salt and under the
\* compile-time IV, to the padded plain text; what DecryptAes128Cbc stores is
\* the decryption under the key derived from the firmware key and the salt in
\* the file and under the 16 bytes parsed from the 32 hex characters of the
\* file, and for an image this tool built those 16 bytes are the compile-time
\* IV.  The IV the key derivation yields is used by neither.
C21_ExplicitIvOnly ==
  [][ /\ ( pc = "create_encrypt" /\ pc' = "create_debug_fwenc" )
           => AesCbcDecryptRaw(
                Slice(buffer', recoveryImageWithHeader, locals'.encryptedDataLength),
                EVP_BytesToKey(EncryptionSalt, Device.FirmwareKey).key, IV)
              = Pkcs7Pad(Slice(buffer, recoveryImageWithHeader,
                               encryptedImageWithoutHeaderSize(locals.st_size)))
      /\ ( pc = "decrypt_decrypt" /\ pc' = "decrypt_inner_header" )
           => LET n == ToInt(locals.currentBlockLength) - M32_FIRMWARE_SALT_INFO_LENGTH
                  raw == AesCbcDecryptRaw(
                           Slice(buffer, locals.currentBlockOffset + 16, n),
                           EVP_BytesToKey(Slice(buffer, locals.currentBlockOffset + 8, 8),
                                          Device.FirmwareKey).key,
                           locals.ivHex)
              IN  /\ SubSeq(decrpytedData', 1, n - raw[n]) = SubSeq(raw, 1, n - raw[n])
                  /\ locals.ivHex = ParsedIv(buffer, ecnryptionInfo)
                  /\ ( run = 2 /\ Ran(1, "--CreateFactoryImage") ) => locals.ivHex = IV ]_vars

\* an image this tool built was decrypted under the IV written in it
C21_DecryptedUnderFileIv ==
  /\ pc = "decrypt_inner_header"
  /\ run = 2
  /\ ~locals.fault
  /\ locals.ivHex = IV
  /\ locals.ivHex # EVP_BytesToKey(Slice(buffer, saltHeader + 8, 8), Device.FirmwareKey).iv

\* the two invocations built a factory image from the same input for the same
\* device, one of them with --debug <Directory>, and no call into the
\* operating system or the library failed in either
BuiltWithAndWithoutDebug ==
  /\ pc = "shell"
  /\ Len(history) = 2
  /\ Ran(1, "--CreateFactoryImage")
  /\ Ran(2, "--CreateFactoryImage")
  /\ history[1].argv.device = history[2].argv.device
  /\ (history[1].argv.argv5 = "--debug") # (history[2].argv.argv5 = "--debug")
  /\ \A r \in 1 .. 2 :
       ~history[r].fault /\ history[r].exitCode # SegmentationFault

\* C22: debug independence.  Two runs on the same device, operation and input
\* that differ only in whether --debug <Directory> is given, all debug files
\* being written, end with the same exit status and leave the same bytes in
\* the primary output file.
C22_DebugIndependence ==
  BuiltWithAndWithoutDebug
    => ( /\ history[1].exitCode = history[2].exitCode
         /\ files["output1"] = files["output2"] )

\* a build with --debug and one without left the same factory image
C22_SameImageWithDebug ==
  /\ BuiltWithAndWithoutDebug
  /\ history[1].exitCode = 0
  /\ history[2].exitCode = 0
  /\ files["output2"].exists
  /\ files["output1"].data = files["output2"].data
  /\ \E f \in debugFiles : f.name = "IV.bin"

\* C23: bounds in split.  Every span DecryptFactoryImage reads or emits lies
\* inside the buffer it is taken from, whatever lengths the headers declare:
\* the outer signed span and its 256-byte signature in the file buffer, the
\* salted cipher text (at least 16 bytes) in the file buffer, the inner
\* payload and its 256-byte signature in the decrypted buffer; a length that
\* does not fit never reaches the stage that reads it.
C23_BoundsInSplit ==
  /\ pc = "decrypt_verify_outer"
       => ( /\ IsSmall(locals.currentBlockLength)
            /\ locals.currentBlockOffset + ToInt(locals.currentBlockLength)
                 + M32_FIRMWARE_SIGNATURE_LENGTH <= Len(buffer) )
  /\ pc = "decrypt_decrypt"
       => ( /\ IsSmall(locals.currentBlockLength)
            /\ ToInt(locals.currentBlockLength) >= M32_FIRMWARE_SALT_INFO_LENGTH
            /\ locals.currentBlockOffset + ToInt(locals.currentBlockLength) <= Len(buffer) )
  /\ pc = "decrypt_verify_inner"
       => ( /\ IsSmall(locals.currentBlockLength)
            /\ M32_FIRMWARE_HEADER_LENGTH + ToInt(locals.currentBlockLength)
                 + M32_FIRMWARE_SIGNATURE_LENGTH <= Len(decrpytedData) )
  /\ pc = "decrypt_write"
       => ( /\ IsSmall(locals.currentBlockLength)
            /\ M32_FIRMWARE_HEADER_LENGTH + ToInt(locals.currentBlockLength)
                 <= Len(decrpytedData) )

\* the outer signature of an image this tool built is about to be verified:
\* span and signature end where the file ends
C23_OuterSpanFits ==
  /\ pc = "decrypt_verify_outer"
  /\ run = 2
  /\ locals.currentBlockOffset + ToInt(locals.currentBlockLength)
       + M32_FIRMWARE_SIGNATURE_LENGTH = Len(buffer)

CreateExtent ==
  LET n == locals.st_size
      c == locals.encryptedDataLength
  IN  CASE pc = "create_read" -> recoveryImage + n
        [] pc = "create_inner_header" -> recoveryImageWithHeader + M32_FIRMWARE_HEADER_LENGTH
        [] pc = "create_inner_sign" -> recoveryImage + n + M32_FIRMWARE_SIGNATURE_LENGTH
        [] pc = "create_debug_sig1" -> recoveryImage + n + M32_FIRMWARE_SIGNATURE_LENGTH
        [] pc = "create_debug_fw" ->
             recoveryImageWithHeader + n + M32_FIRMWARE_HEADER_LENGTH
               + M32_FIRMWARE_SIGNATURE_LENGTH
        [] pc = "create_encrypt" ->
             recoveryImageWithHeader
               + AES_BLOCK_SIZE * (((n + M32_FIRMWARE_HEADER_LENGTH
                                       + M32_FIRMWARE_SIGNATURE_LENGTH) \div AES_BLOCK_SIZE) + 1)
        [] pc = "create_debug_fwenc" -> saltHeader + c + M32_FIRMWARE_SALT_INFO_LENGTH
        [] pc = "create_encryption_header" -> encryptionHeader + M32_FIRMWARE_HEADER_LENGTH
        [] pc = "create_write_iv" -> ecnryptionInfo + 2 * AES_BLOCK_SIZE + 1
        [] pc = "create_debug_iv" -> ecnryptionInfo + M32_FIRMWARE_INITIALIZATION_VECTOR_LENGTH
        [] pc = "create_outer_header" -> factoryImageHeader + M32_FIRMWARE_HEADER_LENGTH
        [] pc = "create_outer_sign" ->
             encryptionHeader + c + M32_FIRMWARE_DECRYPTION_INFO_LENGTH
               + M32_FIRMWARE_HEADER_LENGTH + M32_FIRMWARE_SIGNATURE_LENGTH
        [] pc = "create_write" ->
             c + M32_FIRMWARE_DECRYPTION_INFO_LENGTH + 2 * M32_FIRMWARE_HEADER_LENGTH
               + M32_FIRMWARE_SIGNATURE_LENGTH
        [] OTHER -> 0

\* C25: build buffer bound.  For a recovery image of n >= 1024 bytes the one
\* block CreateFactoryImageFromRecoveryImage allocates has
\* n + 3 * 16 + 2 * 256 + 49 + 16 bytes, and whatever a stage stores (headers,
\* IV text with the terminator of sprintf, salt prefix, cipher text with its
\* padding, both signatures) or hands to the output write ends inside it,
\* whether n + 272 is a multiple of 16 or not.
C25_BuildBufferBound ==
  ( pc \in { "create_read", "create_inner_header", "create_inner_sign",
             "create_debug_sig1", "create_debug_fw", "create_encrypt",
             "create_debug_fwenc", "create_encryption_header", "create_write_iv",
             "create_debug_iv", "create_outer_header", "create_outer_sign",
             "create_write" } )
    => ( /\ locals.st_size >= 1024
         /\ Len(buffer) = locals.st_size + 3 * 16 + 2 * 256 + 49 + 16
         /\ CreateExtent <= Len(buffer)
         /\ ( pc \in { "create_debug_fwenc", "create_encryption_header",
                       "create_write_iv", "create_debug_iv", "create_outer_header",
                       "create_outer_sign", "create_write" }
                => ( /\ locals.encryptedDataLength % AES_BLOCK_SIZE = 0
                     /\ locals.encryptedDataLength > locals.st_size + 272
                     /\ locals.encryptedDataLength <= locals.st_size + 272 + 16 ) ) )

\* a full block of padding: the outer signature of a 1024-byte image ends
\* with the last byte of the block
C25_ExactFit ==
  /\ pc = "create_outer_sign"
  /\ locals.st_size = 1024
  /\ CreateExtent = Len(buffer)

\* the partition the loop of UpdateHeaderInRecoveryImage is about to work on:
\* its start and its payload length
CurrentPartition ==
  [ start |-> locals.headerAddresses[locals.partition + 1],
    length |-> PartitionLength(locals.headerAddresses, locals.partition, locals.st_size) ]

\* the index behind the last byte the loop of Caclulate16BitSum reads of the
\* bufferLength bytes at base: "i += 2" reads buffer[i] and buffer[i + 1]
Sum16Extent(base, bufferLength) == base + 2 * ((bufferLength + 1) \div 2)

\* C26: repair reads stay in bounds.  The magic scan and both checksum
\* computations of UpdateHeaderInRecoveryImage read only bytes below the
\* image length, and the data checksum of a partition reads no byte behind
\* its payload, an odd payload length included.
C26_RepairReadsInBounds ==
  /\ pc = "update_scan"
       => ( locals.st_size - M32_FIRMWARE_UTIL_FW_HEADER_LENGTH - 1
              + Len(Device.RecoveryHeaderStart) ) <= Len(buffer)
  /\ pc = "update_partition"
       => ( /\ Sum16Extent(CurrentPartition.start, CHECKUM_PATCHER_HEADER_CHECKSUM_OFFSET)
                 <= Len(buffer)
            /\ IsSmall(CurrentPartition.length)
            /\ Sum16Extent(CurrentPartition.start + M32_FIRMWARE_UTIL_FW_HEADER_LENGTH,
                           ToInt(CurrentPartition.length))
                 <= CurrentPartition.start + M32_FIRMWARE_UTIL_FW_HEADER_LENGTH
                      + ToInt(CurrentPartition.length)
            /\ CurrentPartition.start + M32_FIRMWARE_UTIL_FW_HEADER_LENGTH
                 + ToInt(CurrentPartition.length) <= Len(buffer) )

\* the checksums of an image with an even payload are due: the last word
\* read ends with the image
C26_EvenPayloadRead ==
  /\ pc = "update_partition"
  /\ locals.st_size = 180
  /\ IsSmall(CurrentPartition.length)
  /\ Sum16Extent(CurrentPartition.start + M32_FIRMWARE_UTIL_FW_HEADER_LENGTH,
                 ToInt(CurrentPartition.length)) = Len(buffer)

\* C27: payload length never underflows.  For every recorded partition the
\* payload length UpdateHeaderInRecoveryImage computes, span minus 80, lies
\* between 0 and the image length minus 80, also when two occurrences of the
\* magic are fewer than 80 bytes apart: the unsigned subtraction never wraps
\* to a huge value that becomes the checksum length and the length field.
C27_PayloadLengthInRange ==
  pc = "update_partition"
    => ( /\ IsSmall(CurrentPartition.length)
         /\ ToInt(CurrentPartition.length)
              <= locals.st_size - M32_FIRMWARE_UTIL_FW_HEADER_LENGTH )

\* two headers 90 bytes apart: the first payload has 10 bytes
C27_ShortPayload ==
  /\ pc = "update_partition"
  /\ locals.st_size = 200
  /\ locals.partition = 0
  /\ locals.headerAddresses = << 0, 90 >>
  /\ CurrentPartition.length = SizeT(10)

\* the header offsets UpdateHeaderInRecoveryImage may store to: the data
\* checksum, the payload length, the header checksum
RepairedOffsets ==
  { CHECKUM_PATCHER_DATA_CHECKSUM_OFFSET, CHECKUM_PATCHER_DATA_CHECKSUM_OFFSET + 1 }
  \cup { M32_FIRMWARE_UTIL_FW_DATA_LENGTH_OFFSET + i : i \in 0 .. 3 }
  \cup { CHECKUM_PATCHER_HEADER_CHECKSUM_OFFSET, CHECKUM_PATCHER_HEADER_CHECKSUM_OFFSET + 1 }

\* C28: repair frame.  The image UpdateHeaderInRecoveryImage wrote has the
\* length of the input and differs from it at most in the bytes at header
\* offsets 0x0E-0x0F, 0x2C-0x2F and 0x4E-0x4F of the recorded partitions:
\* every other byte, the payloads and the magic included, is as it was.
C28_RepairFrame ==
  pc = "shell" =>
    \A r \in 1 .. Len(history) :
      ( Ran(r, "--UpdateFirmwareHeader") /\ history[r].exitCode = 0 )
        => LET input == files[InputOf(r)].data
               output == files[OutputOf(r)].data
               starts == RecordedPartitions(r)
           IN  /\ Len(output) = Len(input)
               /\ \A i \in 1 .. Len(input) :
                    output[i] # input[i]
                      => \E k \in 1 .. Len(starts) :
                           (i - 1 - starts[k]) \in RepairedOffsets

\* a repair changed the checksums of a 200-byte image with two headers and
\* left its payload bytes alone
C28_OnlyFieldsChanged ==
  /\ pc = "shell"
  /\ Len(history) = 1
  /\ Ran(1, "--UpdateFirmwareHeader")
  /\ history[1].exitCode = 0
  /\ RecordedPartitions(1) = << 0, 90 >>
  /\ files["output1"].data[15] # files["input"].data[15]
  /\ files["output1"].data[90 + 45] # files["input"].data[90 + 45]
  /\ Slice(files["output1"].data, 80, 10) = Slice(files["input"].data, 80, 10)

\* the sum of the first count little-endian words of mem, as a number
RECURSIVE WordTotal(_, _)
WordTotal(mem, count) ==
  IF count = 0 THEN 0
  ELSE WordTotal(mem, count - 1) + At(mem, 2 * count - 2) + 256 * At(mem, 2 * count - 1)

\* the end-around carry: what is above 16 bits is added to the low 16 bits
\* until nothing is above
RECURSIVE FoldCarry(_)
FoldCarry(total) ==
  IF total < 65536 THEN total ELSE FoldCarry((total % 65536) + (total \div 65536))

\* C29: checksum carry rule.  For every even-length byte sequence the value
\* Caclulate16BitSum reaches with one increment per wraparound is the 16-bit
\* one's-complement (end-around carry) sum of the little-endian words: the
\* increment after a wraparound never wraps itself, and the inverted mode
\* returns 0xFFFF minus that sum without underflow.
C29_ChecksumCarryRule ==
  /\ pc = "sum_loop"
       => ( /\ locals.checksumNew \in 0 .. 65535
            /\ locals.checksumNew = FoldCarry(WordTotal(buffer, locals.i \div 2))
            /\ locals.checksumNew + 65535 * locals.carries
                 = WordTotal(buffer, locals.i \div 2) )
  /\ pc = "sum_done"
       => LET sum == FoldCarry(WordTotal(buffer, Len(buffer) \div 2))
          IN  /\ locals.checksumNew \in 0 .. 65535
              /\ locals.checksumNew = IF locals.inverted THEN 65535 - sum ELSE sum
              /\ locals.checksumNew = Sum16(buffer, 0, Len(buffer), locals.inverted, 0)

\* 0xFFFF + 0xFFFF + 0x0001: two wraparounds, each carried back in
C29_CarriedTwice ==
  /\ pc = "sum_done"
  /\ buffer = << 255, 255, 255, 255, 1, 0 >>
  /\ ~locals.inverted
  /\ locals.carries = 2
  /\ locals.checksumNew = 1

=============================================================================
